---- MODULE Spec2Model ----
(***************************************************************************)
(* Model of the Sollidly external text-capture and hotkey subsystem:       *)
(*   core/keyboard_hook.py, core/keyboard_hook_improved.py  (hotkeys)      *)
(*   ui/overlay_window.py, ui/circle_menu.py                (overlay)      *)
(*   core/text_monitor.py                    (clipboard round-trip)        *)
(*   core/text_monitor_improved.py           (capture chain, loop)         *)
(* Each component has its own specifications (SpecKeys, SpecScenario,      *)
(* SpecHook, SpecChord, SpecOverlay, SpecOverlaySteps, SpecOverlayTimers,  *)
(* SpecChain, SpecClip, SpecMonitor, SpecRace, SpecRestart, SpecTick,      *)
(* SpecQuiet, SpecEditor); the variables of the other components stay in   *)
(* their constructed state.                                                *)
(***************************************************************************)
EXTENDS Integers, Sequences, FiniteSets, TLC

VARIABLES
    \* ---- hotkey listener (KeyboardHook / ImprovedKeyboardHook, pynput path)
    hook_class,      \* which listener class is instantiated
    callback,        \* TRUE when a toggle callback is registered (not None)
    exit_callback,   \* TRUE when an exit callback is registered
    pressed_keys,    \* the set of normalized keys recorded as pressed
    dispatched,      \* callbacks whose thread the most recent handler started
    last_event,      \* the most recent key event delivered by the OS
    satisfied,       \* history: the chords the pressed set held when that event's key was inserted
    events,          \* the delivered events with what each dispatched (scenario runs)
    \* ---- overlay (OverlayWindow with its CircleMenu)
    win32,           \* TRUE when the win32gui/win32con style calls work
    click_through,   \* WS_EX_TRANSPARENT is set on the overlay window
    alpha,           \* the window's -alpha attribute, in tenths
    is_menu_visible, \* OverlayWindow.is_menu_visible
    circle_menu,     \* OverlayWindow.circle_menu: NoMenu or the CircleMenu's fields
    menu_handlers,   \* what self._on_menu_exit/_suggest/_analyze are: the class's methods or the given callbacks
    menu_ran,        \* what the latest menu button click called
    suggestion_boxes,\* suggestion boxes on the canvas (items tagged suggestion_box)
    timers,          \* pending after(3000, clear_suggestion) timers
    error_markers,   \* number of canvas items in error_markers
    last_op,         \* the most recent overlay operation and whether it raised
    pre_menu,        \* click-through and alpha before the menu was opened
    \* ---- capture chain (ImprovedTextMonitor.capture_text_smart)
    chain_os,        \* how the foreign window answered during the latest capture
    chain_trace,     \* the strategies the latest capture invoked, with their results
    chain_result,    \* the value the latest capture returned (its fields)
    chain_raised,    \* TRUE when the latest capture raised instead of returning
    \* ---- text monitor (TextMonitor / ImprovedTextMonitor)
    monitor_class,   \* which monitor class is instantiated
    is_monitoring,   \* the monitor's is_monitoring flag
    loops,           \* the monitoring-loop threads created so far, in creation order
    caller,          \* the thread that calls start/stop/force_capture on the monitor
    clip,            \* per thread: its position in capture_text_via_clipboard
    clipboard,       \* the text on the system clipboard
    now,             \* time.time(), in units of 50 ms
    last_text,       \* the monitor's last_text
    last_change_time,\* the monitor's last_change_time
    last_cursor_pos, \* the monitor's last_cursor_pos
    text_change_callback,   \* TRUE when a text-changed callback is registered
    cursor_change_callback, \* TRUE when a cursor-changed callback is registered
    stop_returned,   \* TRUE from the return of stop_monitoring to the next start
    force_calls,     \* number of force_capture calls made so far
    loop_effect,     \* what the latest step made a loop thread do to the outside
    \* ---- hotkey listener: start, stop and the callback threads
    hook_env,        \* which libraries can be imported and which add_hotkey call raises
    hook_method,     \* ImprovedKeyboardHook.hook_method ("none" for None)
    is_running,      \* the listener's is_running flag, which is_active() returns
    listener,        \* self.listener: "none", or the state of the pynput Listener in it
    os_listeners,    \* pynput listeners the OS is delivering key events to
    hotkeys,         \* hotkey registrations held by the keyboard library, per chord
    callback_threads,\* callback threads started and not yet returned
    handler_waiting, \* TRUE while the event-delivery thread is inside a callback
    hook_last,       \* the latest start()/stop() call and the one before, numbered
    down_since_start,\* history: keys delivered as key-down since the latest start() that started a listener
    \* ---- overlay operations taken statement by statement
    ov_pc,           \* the statements the overlay operation in progress has left
    \* ---- functions applied on their own
    fn_args,         \* the arguments of the latest application
    fn_result,       \* the value it returned
    \* ---- one loop thread taken statement by statement
    tick_pc,         \* the statement of _monitoring_loop the thread is at
    tick_trace,      \* what the tick in progress (or the latest) has done so far
    tick_text,       \* captured_text of the tick
    responding       \* TRUE while the foreign window's thread handles its messages

kbVars == <<hook_class, callback, exit_callback, pressed_keys, dispatched,
            last_event, satisfied, events>>

ovVars == <<win32, click_through, alpha, is_menu_visible, circle_menu,
            menu_handlers, menu_ran,
            suggestion_boxes, timers, error_markers, last_op, pre_menu>>

chVars == <<chain_os, chain_trace, chain_result, chain_raised>>

monVars == <<monitor_class, is_monitoring, loops, caller, clip, clipboard, now,
             last_text, last_change_time, last_cursor_pos, text_change_callback,
             cursor_change_callback, stop_returned, force_calls, loop_effect>>

hkVars == <<hook_env, hook_method, is_running, listener, os_listeners, hotkeys,
            callback_threads, handler_waiting, hook_last, down_since_start>>

stVars == <<ov_pc>>

fnVars == <<fn_args, fn_result>>

tkVars == <<tick_pc, tick_trace, tick_text, responding>>

vars == <<kbVars, ovVars, chVars, monVars, stVars, fnVars, hkVars, tkVars>>

(***************************************************************************)
(* Hotkey listener                                                         *)
(***************************************************************************)

\* A pynput key: a named key (keyboard.Key member) or a character key (KeyCode
\* with a char).
NamedKey(n) == [kind |-> "key", name |-> n]
CharKey(c)  == [kind |-> "char", name |-> c]

\* str.lower() on the strings that occur here: the letters A to Z go to a to
\* z, every other character to itself.
UpperLetters == <<"A", "B", "C", "D", "E", "F", "G", "H", "I", "J", "K", "L", "M", "N", "O", "P", "Q", "R", "S", "T", "U", "V", "W", "X", "Y", "Z">>
LowerLetters == <<"a", "b", "c", "d", "e", "f", "g", "h", "i", "j", "k", "l", "m", "n", "o", "p", "q", "r", "s", "t", "u", "v", "w", "x", "y", "z">>

Lower(s) ==
    IF \E i \in 1..Len(UpperLetters) : UpperLetters[i] = s
    THEN LowerLetters[CHOOSE i \in 1..Len(UpperLetters) : UpperLetters[i] = s]
    ELSE s

\* config.HOTKEYS
HOTKEYS == [toggle_menu |-> <<"ctrl", "shift", "s">>,
            exit_app    |-> <<"ctrl", "shift", "q">>]

\* KeyboardHook._parse_hotkey: key names to pynput keys.
parse_hotkey(keys) ==
    { LET key_name == Lower(keys[i]) IN
        IF key_name \in {"alt", "ctrl", "shift", "enter", "esc", "space"}
        THEN NamedKey(key_name)
        ELSE CharKey(key_name)
      : i \in 1..Len(keys) }

\* ImprovedKeyboardHook._start_with_pynput.parse_hotkey (no "space" branch).
improved_parse_hotkey(keys) ==
    { LET key_name == Lower(keys[i]) IN
        IF key_name \in {"alt", "ctrl", "shift", "enter", "esc"}
        THEN NamedKey(key_name)
        ELSE CharKey(key_name)
      : i \in 1..Len(keys) }

\* The chords of the instantiated listener.
hotkey_combo == parse_hotkey(HOTKEYS.toggle_menu)
exit_combo   == parse_hotkey(HOTKEYS.exit_app)
toggle_keys  == improved_parse_hotkey(HOTKEYS.toggle_menu)
exit_keys    == improved_parse_hotkey(HOTKEYS.exit_app)

\* Handlers that keep every key as it is delivered.
Normalize_case_sensitive(key) == key

\* The handlers' normalisation: a key with a char becomes the key of its
\* lower-case char; any other key is kept.
Normalize(key) ==
    IF key.kind = "char" THEN CharKey(Lower(key.name)) ELSE key

\* _on_press that never clears the pressed set after a dispatch.
KH_press_noclear(pressed, key, cb, ecb) ==
    LET p1    == pressed \cup {Normalize(key)}
        fire1 == hotkey_combo \subseteq p1 /\ cb
        fire2 == exit_combo \subseteq p1 /\ ecb
    IN  [pressed    |-> p1,
         dispatched |-> (IF fire1 THEN {"toggle"} ELSE {})
                        \cup (IF fire2 THEN {"exit"} ELSE {})]

\* _on_press that tests both chords before clearing.
KH_press_bothfire(pressed, key, cb, ecb) ==
    LET p1    == pressed \cup {Normalize(key)}
        fire1 == hotkey_combo \subseteq p1 /\ cb
        fire2 == exit_combo \subseteq p1 /\ ecb
    IN  [pressed    |-> IF fire1 \/ fire2 THEN {} ELSE p1,
         dispatched |-> (IF fire1 THEN {"toggle"} ELSE {})
                        \cup (IF fire2 THEN {"exit"} ELSE {})]

\* _on_press that clears the pressed set only after the exit dispatch.
KH_press_toggle_keeps_keys(pressed, key, cb, ecb) ==
    LET p1    == pressed \cup {Normalize(key)}
        fire1 == hotkey_combo \subseteq p1 /\ cb
        fire2 == exit_combo \subseteq p1 /\ ecb
    IN  [pressed    |-> IF fire2 THEN {} ELSE p1,
         dispatched |-> (IF fire1 THEN {"toggle"} ELSE {})
                        \cup (IF fire2 THEN {"exit"} ELSE {})]

\* KeyboardHook._on_press: the pressed set and the dispatched callbacks after a
\* key-down of `key`.
KH_press(pressed, key, cb, ecb) ==
    LET p1    == pressed \cup {Normalize(key)}
        fire1 == hotkey_combo \subseteq p1 /\ cb
        p2    == IF fire1 THEN {} ELSE p1
        fire2 == exit_combo \subseteq p2 /\ ecb
        p3    == IF fire2 THEN {} ELSE p2
    IN  [pressed    |-> p3,
         dispatched |-> (IF fire1 THEN {"toggle"} ELSE {})
                        \cup (IF fire2 THEN {"exit"} ELSE {})]

\* ImprovedKeyboardHook on_press (pynput path): the clear does not depend on a
\* callback being registered.
IH_press(pressed, key, cb, ecb) ==
    LET p1 == pressed \cup {Normalize(key)}
        m1 == toggle_keys \subseteq p1
        p2 == IF m1 THEN {} ELSE p1
        m2 == exit_keys \subseteq p2
        p3 == IF m2 THEN {} ELSE p2
    IN  [pressed    |-> p3,
         dispatched |-> (IF m1 /\ cb THEN {"toggle"} ELSE {})
                        \cup (IF m2 /\ ecb THEN {"exit"} ELSE {})]

\* _on_release / on_release: remove the normalized key if present.
KH_release(pressed, key) == pressed \ {Normalize(key)}

\* The keys the OS delivers in the model.
RawKeys == {NamedKey("ctrl"), NamedKey("shift"),
            CharKey("s"), CharKey("S"), CharKey("q")}

PressResult(key) ==
    IF hook_class = "KeyboardHook"
    THEN KH_press(pressed_keys, key, callback, exit_callback)
    ELSE IH_press(pressed_keys, key, callback, exit_callback)

\* The chords that are subsets of a pressed set.
SatisfiedBy(pressed) ==
    {c \in {"toggle", "exit"} :
        (IF c = "toggle" THEN hotkey_combo ELSE exit_combo) \subseteq pressed}

\* A key-down event delivered to the listener.
OnPress(key) ==
    LET r == PressResult(key) IN
    /\ pressed_keys' = r.pressed
    /\ dispatched' = r.dispatched
    /\ last_event' = [type |-> "down", key |-> key]
    /\ satisfied' = SatisfiedBy(pressed_keys \cup {Normalize(key)})
    /\ UNCHANGED <<hook_class, callback, exit_callback>>

\* A key-up event delivered to the listener.
OnRelease(key) ==
    /\ pressed_keys' = KH_release(pressed_keys, key)
    /\ dispatched' = {}
    /\ last_event' = [type |-> "up", key |-> key]
    /\ satisfied' = {}
    /\ UNCHANGED <<hook_class, callback, exit_callback>>

NoEvent == [type |-> "none", key |-> NamedKey("none")]

\* The listener after construction, callback registration and start().
KbInit ==
    /\ hook_class \in {"KeyboardHook", "ImprovedKeyboardHook"}
    /\ callback \in BOOLEAN
    /\ exit_callback \in BOOLEAN
    /\ pressed_keys = {}
    /\ dispatched = {}
    /\ last_event = NoEvent
    /\ satisfied = {}
    /\ events = <<>>

KbIdle ==
    /\ hook_class = "KeyboardHook"
    /\ callback = FALSE
    /\ exit_callback = FALSE
    /\ pressed_keys = {}
    /\ dispatched = {}
    /\ last_event = NoEvent
    /\ satisfied = {}
    /\ events = <<>>

KeyDown == \E key \in RawKeys : OnPress(key) /\ UNCHANGED <<events, ovVars, chVars, monVars, fnVars, stVars, hkVars, tkVars>>
KeyUp   == \E key \in RawKeys : OnRelease(key) /\ UNCHANGED <<events, ovVars, chVars, monVars, fnVars, stVars, hkVars, tkVars>>

\* ---- the toggle scenario: ctrl, shift, s, then events of s alone ----------
MaxEvents == 7

ScenarioPrefix == <<NamedKey("ctrl"), NamedKey("shift"), CharKey("s")>>
SOnlyKeys == {CharKey("s"), CharKey("S")}

Logged(type, key) == [type |-> type, key |-> key, dispatched |-> dispatched']

ScenarioDown ==
    /\ UNCHANGED <<ovVars, chVars, monVars, fnVars, stVars, hkVars, tkVars>>
    /\ Len(events) < MaxEvents
    /\ \E key \in RawKeys :
         /\ IF Len(events) < Len(ScenarioPrefix)
            THEN key = ScenarioPrefix[Len(events) + 1]
            ELSE key \in SOnlyKeys
         /\ OnPress(key)
         /\ events' = Append(events, Logged("down", key))

ScenarioUp ==
    /\ UNCHANGED <<ovVars, chVars, monVars, fnVars, stVars, hkVars, tkVars>>
    /\ Len(events) >= Len(ScenarioPrefix)
    /\ Len(events) < MaxEvents
    /\ \E key \in SOnlyKeys :
         /\ OnRelease(key)
         /\ events' = Append(events, Logged("up", key))


\* ---- start(), stop() and the callback threads --------------------------------

\* Bounds: calls of start() and stop() made, callback threads alive at once.
MaxHookCalls == 4
MaxCallbackThreads == 2

Chords == {"toggle", "exit"}

\* A variant that falls back on pynput without having imported it.
detect_available_library_assume_pynput(libs) ==
    IF "keyboard" \in libs THEN "keyboard" ELSE "pynput"

\* ImprovedKeyboardHook._detect_available_library: keyboard first, then
\* pynput, else None.
detect_available_library(libs) ==
    IF "keyboard" \in libs THEN "keyboard"
    ELSE IF "pynput" \in libs THEN "pynput"
    ELSE "none"

HookMethod(libs) == detect_available_library(libs)

\* The fields start() and stop() work on.
HookFields == [is_running |-> is_running, listener |-> listener,
               os_listeners |-> os_listeners, hotkeys |-> hotkeys,
               pressed_keys |-> pressed_keys]

\* keyboard.Listener(...).start() stored in self.listener
NewListener(h) == [h EXCEPT !.listener = "running",
                            !.os_listeners = h.os_listeners + 1]

\* self.listener.stop(): stopping a stopped listener does nothing more.
StopListener(h) ==
    IF h.listener = "running"
    THEN [h EXCEPT !.listener = "stopped", !.os_listeners = h.os_listeners - 1]
    ELSE h

\* KeyboardHook.start that does not test is_running.
KH_start_unguarded(h) == [NewListener(h) EXCEPT !.is_running = TRUE]

\* KeyboardHook.start
KH_start(h) ==
    IF h.is_running THEN h
    ELSE [NewListener(h) EXCEPT !.is_running = TRUE]

\* KeyboardHook.stop
KH_stop(h) ==
    IF h.listener # "none"
    THEN [StopListener(h) EXCEPT !.is_running = FALSE]
    ELSE h

\* ImprovedKeyboardHook._start_with_keyboard_lib: add_hotkey for the toggle
\* chord, then for the exit chord, then is_running = True; the first call that
\* raises ends the block in the except clause.
start_with_keyboard_lib(h, raises) ==
    IF raises = "toggle" THEN h
    ELSE IF raises = "exit"
    THEN [h EXCEPT !.hotkeys.toggle = h.hotkeys.toggle + 1]
    ELSE [h EXCEPT !.hotkeys.toggle = h.hotkeys.toggle + 1,
                   !.hotkeys.exit = h.hotkeys.exit + 1,
                   !.is_running = TRUE]

\* ImprovedKeyboardHook._start_with_pynput: a fresh pressed set, a new listener,
\* is_running = True.
start_with_pynput(h) ==
    [NewListener(h) EXCEPT !.pressed_keys = {}, !.is_running = TRUE]

\* ImprovedKeyboardHook.start
IH_start(h, method, raises) ==
    IF h.is_running THEN h
    ELSE IF method = "none" THEN h
    ELSE IF method = "keyboard" THEN start_with_keyboard_lib(h, raises)
    ELSE start_with_pynput(h)

\* ImprovedKeyboardHook.stop: nothing when not running; else unhook_all() or
\* listener.stop(), then is_running = False.
IH_stop(h, method) ==
    IF ~h.is_running THEN h
    ELSE IF method = "keyboard"
    THEN [h EXCEPT !.hotkeys = [toggle |-> 0, exit |-> 0], !.is_running = FALSE]
    ELSE IF method = "pynput"
    THEN [StopListener(h) EXCEPT !.is_running = FALSE]
    ELSE [h EXCEPT !.is_running = FALSE]

\* A call writes the fields back and is numbered; no statement of start() or
\* stop() outside a try block raises.
HookCall(op, h) ==
    /\ hook_last.n < MaxHookCalls
    /\ is_running' = h.is_running
    /\ listener' = h.listener
    /\ os_listeners' = h.os_listeners
    /\ hotkeys' = h.hotkeys
    /\ pressed_keys' = h.pressed_keys
    /\ hook_last' = [op |-> op, prev |-> hook_last.op, n |-> hook_last.n + 1,
                     raised |-> FALSE]
    /\ down_since_start' = IF op = "start" /\ h.os_listeners > os_listeners
                           THEN {} ELSE down_since_start
    /\ UNCHANGED <<hook_class, callback, exit_callback, dispatched, last_event, satisfied,
                   events, hook_env, hook_method, callback_threads,
                   handler_waiting>>
    /\ UNCHANGED <<ovVars, chVars, monVars, stVars, fnVars, tkVars>>

\* start()
HookStart ==
    HookCall("start",
             IF hook_class = "KeyboardHook"
             THEN KH_start(HookFields)
             ELSE IH_start(HookFields, hook_method, hook_env.add_hotkey_raises))

\* stop()
HookStop ==
    HookCall("stop",
             IF hook_class = "KeyboardHook"
             THEN KH_stop(HookFields)
             ELSE IH_stop(HookFields, hook_method))

\* A handler that calls the callbacks itself and returns when they have.
Dispatch_inline(n) == [threads |-> n, waiting |-> n > 0]

\* threading.Thread(target=callback, daemon=True).start() for n callbacks: the
\* threads run on their own and the handler goes on.
Dispatch(n) == [threads |-> n, waiting |-> FALSE]

\* The event-delivery thread hands the next event to a handler when the
\* previous handler has returned.
Delivering == ~handler_waiting

\* A key-down event delivered by a running pynput listener.
HookKeyDown ==
    \E key \in RawKeys :
        LET d == Dispatch(Cardinality(PressResult(key).dispatched)) IN
        /\ Delivering
        /\ listener = "running"
        /\ callback_threads + d.threads <= MaxCallbackThreads
        /\ OnPress(key)
        /\ callback_threads' = callback_threads + d.threads
        /\ handler_waiting' = d.waiting
        /\ down_since_start' = down_since_start \cup {Normalize(key)}
        /\ UNCHANGED <<events, hook_env, hook_method, is_running, listener,
                       os_listeners, hotkeys, hook_last>>
        /\ UNCHANGED <<ovVars, chVars, monVars, stVars, fnVars, tkVars>>

\* A key-up event delivered by a running pynput listener.
HookKeyUp ==
    \E key \in RawKeys :
        /\ Delivering
        /\ listener = "running"
        /\ OnRelease(key)
        /\ UNCHANGED <<events, hkVars>>
        /\ UNCHANGED <<ovVars, chVars, monVars, stVars, fnVars, tkVars>>

\* The keyboard library sees a registered chord and calls on_toggle or on_exit
\* once per registration; each call starts a thread when the callback is set.
HotkeyFired ==
    \E chord \in Chords :
        LET set == IF chord = "toggle" THEN callback ELSE exit_callback
            d   == Dispatch(IF set THEN hotkeys[chord] ELSE 0)
        IN  /\ Delivering
            /\ hotkeys[chord] > 0
            /\ callback_threads + d.threads <= MaxCallbackThreads
            /\ dispatched' = IF set THEN {chord} ELSE {}
            /\ last_event' = [type |-> "hotkey", key |-> NamedKey(chord)]
            /\ satisfied' = {chord}
            /\ callback_threads' = callback_threads + d.threads
            /\ handler_waiting' = d.waiting
            /\ UNCHANGED <<hook_class, callback, exit_callback, pressed_keys,
                           events, hook_env, hook_method, is_running, listener,
                           os_listeners, hotkeys, hook_last, down_since_start>>
            /\ UNCHANGED <<ovVars, chVars, monVars, stVars, fnVars, tkVars>>

\* A callback returns; one that never returns never takes this step.
CallbackReturn ==
    /\ callback_threads > 0
    /\ callback_threads' = callback_threads - 1
    /\ handler_waiting' = (handler_waiting /\ callback_threads' > 0)
    /\ UNCHANGED <<kbVars, hook_env, hook_method, is_running, listener,
                   os_listeners, hotkeys, hook_last, down_since_start>>
    /\ UNCHANGED <<ovVars, chVars, monVars, stVars, fnVars, tkVars>>

NoCall == [op |-> "init", prev |-> "init", n |-> 0, raised |-> FALSE]

\* The listener after construction: KeyboardHook imports pynput with its
\* module; ImprovedKeyboardHook looks for the libraries in __init__.
HkInit ==
    /\ hook_env \in
          [libs : IF hook_class = "KeyboardHook"
                  THEN {{"pynput"}}
                  ELSE SUBSET {"keyboard", "pynput"},
           add_hotkey_raises : {"never", "toggle", "exit"}]
    /\ hook_env.add_hotkey_raises # "never" =>
          (hook_class = "ImprovedKeyboardHook" /\ "keyboard" \in hook_env.libs)
    /\ hook_method = IF hook_class = "KeyboardHook" THEN "pynput"
                     ELSE HookMethod(hook_env.libs)
    /\ is_running = FALSE
    /\ listener = "none"
    /\ os_listeners = 0
    /\ hotkeys = [toggle |-> 0, exit |-> 0]
    /\ callback_threads = 0
    /\ handler_waiting = FALSE
    /\ hook_last = NoCall
    /\ down_since_start = {}

HkIdle ==
    /\ hook_env = [libs |-> {"pynput"}, add_hotkey_raises |-> "never"]
    /\ hook_method = "pynput"
    /\ is_running = FALSE
    /\ listener = "none"
    /\ os_listeners = 0
    /\ hotkeys = [toggle |-> 0, exit |-> 0]
    /\ callback_threads = 0
    /\ handler_waiting = FALSE
    /\ hook_last = NoCall
    /\ down_since_start = {}

(***************************************************************************)
(* Overlay window and circle menu                                          *)
(***************************************************************************)

\* -alpha values in tenths: config.OVERLAY["opacity"] = 0.0, show_menu 0.1,
\* display_suggestion 0.3.
RestingAlpha    == 0
MenuAlpha       == 1
SuggestionAlpha == 3

\* len(config.CIRCLE_MENU["menu_items"])
NumMenuItems == 3

\* Bounds of the model.
MaxTimers == 2
MaxErrors == 6

\* show_errors draws markers for at most this many errors (errors[:5]).
MaxShownErrors == 5

NoMenu == [exists |-> FALSE, is_visible |-> FALSE, buttons |-> 0,
           placed |-> FALSE, animation_id |-> FALSE, callbacks |-> "none"]

\* CircleMenu.__init__
NewCircleMenu == [exists |-> TRUE, is_visible |-> FALSE, buttons |-> 0,
                  placed |-> FALSE, animation_id |-> FALSE, callbacks |-> "none"]

\* CircleMenu.set_callbacks(on_exit, on_suggest, on_analyze)
cm_set_callbacks(cm, handlers) == [cm EXCEPT !.callbacks = handlers]

\* show_menu's branch for a missing menu: CircleMenu(self, x, y) and
\* set_callbacks with what self._on_menu_* are at that moment.
CreatedMenu == cm_set_callbacks(NewCircleMenu, menu_handlers)

\* CircleMenu._animate_show(step, max_steps): progress = step / max_steps raises
\* ZeroDivisionError when max_steps is 0; otherwise the buttons are placed and
\* the next frame is scheduled.
animate_show(cm, step, max_steps) ==
    IF step > max_steps THEN [cm |-> cm, raised |-> FALSE]
    ELSE IF max_steps = 0 THEN [cm |-> cm, raised |-> TRUE]
    ELSE [cm |-> [cm EXCEPT !.placed = TRUE, !.animation_id = TRUE],
          raised |-> FALSE]

\* CircleMenu.show(): no-op when visible; else mark visible, create the buttons
\* (placed, then place_forget) and start the animation with _animate_show(0, 0).
cm_show(cm) ==
    IF cm.is_visible THEN [cm |-> cm, raised |-> FALSE]
    ELSE animate_show([cm EXCEPT !.is_visible = TRUE, !.buttons = NumMenuItems,
                                 !.placed = FALSE], 0, 0)

\* CircleMenu.hide(): no-op when hidden; else cancel the animation and destroy
\* the buttons.
cm_hide(cm) ==
    IF ~cm.is_visible THEN cm
    ELSE [cm EXCEPT !.is_visible = FALSE, !.animation_id = FALSE,
                    !.buttons = 0, !.placed = FALSE]

\* CircleMenu.update_position(x, y): re-show a visible menu at the new place.
cm_update_position(cm) ==
    IF cm.is_visible THEN cm_show(cm_hide(cm)) ELSE [cm |-> cm, raised |-> FALSE]

\* OverlayWindow._disable_click_through: clears WS_EX_TRANSPARENT; a failing
\* style call is caught and leaves the style as it was.
disable_click_through(ct) == IF win32 THEN FALSE ELSE ct

\* OverlayWindow._enable_click_through
enable_click_through(ct) == IF win32 THEN TRUE ELSE ct

Op(name, raised) == [op |-> name, raised |-> raised]

\* The body of show_menu(x, y), up to the statement that raises, if one does.
show_menu ==
    LET r0 == IF ~circle_menu.exists
              THEN [cm |-> CreatedMenu, raised |-> FALSE]
              ELSE cm_update_position(circle_menu)
        r1 == IF r0.raised THEN r0 ELSE cm_show(r0.cm)
    IN  /\ click_through' = disable_click_through(click_through)
        /\ alpha' = MenuAlpha
        /\ circle_menu' = r1.cm
        /\ is_menu_visible' = IF r1.raised THEN is_menu_visible ELSE TRUE
        /\ last_op' = Op("show_menu", r1.raised)
        /\ pre_menu' = IF pre_menu.open THEN pre_menu
                        ELSE [open |-> TRUE, click_through |-> click_through,
                              alpha |-> alpha]
        /\ UNCHANGED <<win32, menu_handlers, menu_ran, suggestion_boxes, timers, error_markers>>

\* The body of hide_menu().
hide_menu ==
    /\ circle_menu' = IF circle_menu.exists THEN cm_hide(circle_menu)
                                            ELSE circle_menu
    /\ click_through' = enable_click_through(click_through)
    /\ alpha' = RestingAlpha
    /\ is_menu_visible' = FALSE
    /\ last_op' = Op("hide_menu", FALSE)
    /\ pre_menu' = [pre_menu EXCEPT !.open = FALSE]
    /\ UNCHANGED <<win32, menu_handlers, menu_ran, suggestion_boxes, timers, error_markers>>

\* A clear_suggestion() that removes the box and leaves the opacity raised.
clear_suggestion_keeps_opacity ==
    /\ suggestion_boxes' = 0
    /\ click_through' = enable_click_through(click_through)
    /\ last_op' = Op("clear_suggestion", FALSE)
    /\ UNCHANGED <<win32, menu_handlers, menu_ran, alpha, is_menu_visible, circle_menu, error_markers, pre_menu>>

\* The body of clear_suggestion().
clear_suggestion ==
    /\ suggestion_boxes' = 0
    /\ alpha' = RestingAlpha
    /\ click_through' = enable_click_through(click_through)
    /\ last_op' = Op("clear_suggestion", FALSE)
    /\ UNCHANGED <<win32, menu_handlers, menu_ran, is_menu_visible, circle_menu, error_markers, pre_menu>>

\* The body of set_menu_callbacks(on_exit, on_suggest, on_analyze): the three
\* attributes are assigned; the circle menu is not told.
set_menu_callbacks ==
    /\ menu_handlers' = "given"
    /\ last_op' = Op("set_menu_callbacks", FALSE)
    /\ UNCHANGED <<win32, click_through, alpha, is_menu_visible, circle_menu,
                   menu_ran, suggestion_boxes, timers, error_markers, pre_menu>>

\* CircleMenu._on_button_click(button_name): hide(), then the callback set
\* for the button. OverlayWindow's own _on_menu_* methods call hide_menu(); a
\* callback given from outside is not part of the overlay and may call
\* hide_menu() or leave the overlay alone.
on_button_click(given_hides) ==
    LET cm == cm_hide(circle_menu) IN
    /\ circle_menu' = cm
    /\ menu_ran' = cm.callbacks
    /\ IF cm.callbacks = "methods" \/ given_hides
       THEN /\ click_through' = enable_click_through(click_through)
            /\ alpha' = RestingAlpha
            /\ is_menu_visible' = FALSE
            /\ pre_menu' = [pre_menu EXCEPT !.open = FALSE]
       ELSE UNCHANGED <<click_through, alpha, is_menu_visible, pre_menu>>
    /\ last_op' = Op("button_click", FALSE)
    /\ UNCHANGED <<win32, menu_handlers, suggestion_boxes, timers, error_markers>>

ShowMenu == (show_menu) /\ UNCHANGED <<kbVars, chVars, monVars, fnVars, stVars, hkVars, tkVars>>

HideMenu == (hide_menu) /\ UNCHANGED <<kbVars, chVars, monVars, fnVars, stVars, hkVars, tkVars>>

\* toggle_menu(x, y)
ToggleMenu == (IF is_menu_visible THEN hide_menu ELSE show_menu) /\ UNCHANGED <<kbVars, chVars, monVars, fnVars, stVars, hkVars, tkVars>>

\* set_menu_callbacks(on_exit, on_suggest, on_analyze)
SetMenuCallbacks == set_menu_callbacks /\ UNCHANGED <<kbVars, chVars, monVars, fnVars, stVars, hkVars, tkVars>>

\* One of the menu's buttons is clicked; the buttons exist from show() to
\* hide().
ButtonClick ==
    /\ circle_menu.exists /\ circle_menu.buttons > 0
    /\ \E given_hides \in BOOLEAN : on_button_click(given_hides)
    /\ UNCHANGED <<kbVars, chVars, monVars, fnVars, stVars, hkVars, tkVars>>

\* display_suggestion(suggestion, x, y): raise alpha, make the window clickable,
\* draw the box and arm the 3-second timer.
DisplaySuggestion ==
    /\ UNCHANGED <<kbVars, chVars, monVars, fnVars, stVars, hkVars, tkVars>>
    /\ timers < MaxTimers
    /\ alpha' = SuggestionAlpha
    /\ click_through' = disable_click_through(click_through)
    /\ suggestion_boxes' = suggestion_boxes + 1
    /\ timers' = timers + 1
    /\ last_op' = Op("display_suggestion", FALSE)
    /\ UNCHANGED <<win32, menu_handlers, menu_ran, is_menu_visible, circle_menu, error_markers, pre_menu>>

\* clear_suggestion() called explicitly.
ClearSuggestion == clear_suggestion /\ UNCHANGED <<timers, kbVars, chVars, monVars, fnVars, stVars, hkVars, tkVars>>

\* A pending after(3000, clear_suggestion) timer expires.
SuggestionTimer ==
    /\ UNCHANGED <<kbVars, chVars, monVars, fnVars, stVars, hkVars, tkVars>>
    /\ timers > 0
    /\ timers' = timers - 1
    /\ clear_suggestion

Min(a, b) == IF a < b THEN a ELSE b

\* clear_errors()
ClearErrors ==
    /\ UNCHANGED <<kbVars, chVars, monVars, fnVars, stVars, hkVars, tkVars>>
    /\ error_markers' = 0
    /\ last_op' = Op("clear_errors", FALSE)
    /\ UNCHANGED <<win32, menu_handlers, menu_ran, click_through, alpha, is_menu_visible, circle_menu,
                   suggestion_boxes, timers, pre_menu>>

\* show_errors(errors, x, y): clear, then a line and a text item per error shown.
ShowErrors ==
    \E n \in 0..MaxErrors :
        /\ UNCHANGED <<kbVars, chVars, monVars, fnVars, stVars, hkVars, tkVars>>
        /\ error_markers' = 2 * Min(n, MaxShownErrors)
        /\ last_op' = Op("show_errors", FALSE)
        /\ UNCHANGED <<win32, menu_handlers, menu_ran, click_through, alpha, is_menu_visible, circle_menu,
                       suggestion_boxes, timers, pre_menu>>

\* No show_menu is waiting for its hide_menu.
NoSnapshot == [open |-> FALSE, click_through |-> FALSE, alpha |-> RestingAlpha]

\* OverlayWindow.__init__: alpha from the configuration; WS_EX_TRANSPARENT is
\* set when the style call works.
OvInit ==
    /\ win32 \in BOOLEAN
    /\ click_through = win32
    /\ alpha = RestingAlpha
    /\ is_menu_visible = FALSE
    /\ circle_menu = NoMenu
    /\ menu_handlers = "methods"
    /\ menu_ran = "none"
    /\ suggestion_boxes = 0
    /\ timers = 0
    /\ error_markers = 0
    /\ last_op = Op("init", FALSE)
    /\ pre_menu = NoSnapshot

OvIdle ==
    /\ win32 = TRUE
    /\ click_through = TRUE
    /\ alpha = RestingAlpha
    /\ is_menu_visible = FALSE
    /\ circle_menu = NoMenu
    /\ menu_handlers = "methods"
    /\ menu_ran = "none"
    /\ suggestion_boxes = 0
    /\ timers = 0
    /\ error_markers = 0
    /\ last_op = Op("init", FALSE)
    /\ pre_menu = NoSnapshot

\* ---- the overlay operations, one statement at a time -------------------------

\* The statements of show_menu(x, y), in order.
show_menu_steps ==
    << [do |-> "click_through", on |-> FALSE],
       [do |-> "alpha", value |-> MenuAlpha],
       [do |-> "circle_menu_show"],
       [do |-> "is_menu_visible", value |-> TRUE] >>

\* The statements of hide_menu().
hide_menu_steps ==
    << [do |-> "circle_menu_hide"],
       [do |-> "click_through", on |-> TRUE],
       [do |-> "alpha", value |-> RestingAlpha],
       [do |-> "is_menu_visible", value |-> FALSE] >>

\* The statements of display_suggestion(suggestion, x, y).
display_suggestion_steps ==
    << [do |-> "alpha", value |-> SuggestionAlpha],
       [do |-> "click_through", on |-> FALSE],
       [do |-> "draw_box"],
       [do |-> "after"] >>

\* The statements of clear_suggestion().
clear_suggestion_steps ==
    << [do |-> "delete_boxes"],
       [do |-> "alpha", value |-> RestingAlpha],
       [do |-> "click_through", on |-> TRUE] >>

StIdle == ov_pc = <<>>

\* A call of one of the four operations, or the expiry of a pending timer,
\* which calls clear_suggestion; the Tk thread runs one of them at a time.
BeginShowMenu ==
    /\ ov_pc = <<>>
    /\ ov_pc' = show_menu_steps
    /\ UNCHANGED <<kbVars, ovVars, chVars, monVars, fnVars, hkVars, tkVars>>

BeginHideMenu ==
    /\ ov_pc = <<>>
    /\ ov_pc' = hide_menu_steps
    /\ UNCHANGED <<kbVars, ovVars, chVars, monVars, fnVars, hkVars, tkVars>>

BeginDisplaySuggestion ==
    /\ ov_pc = <<>>
    /\ timers < MaxTimers
    /\ ov_pc' = display_suggestion_steps
    /\ UNCHANGED <<kbVars, ovVars, chVars, monVars, fnVars, hkVars, tkVars>>

BeginClearSuggestion ==
    /\ ov_pc = <<>>
    /\ ov_pc' = clear_suggestion_steps
    /\ UNCHANGED <<kbVars, ovVars, chVars, monVars, fnVars, hkVars, tkVars>>

BeginSuggestionTimer ==
    /\ ov_pc = <<>>
    /\ timers > 0
    /\ timers' = timers - 1
    /\ ov_pc' = clear_suggestion_steps
    /\ UNCHANGED <<win32, menu_handlers, menu_ran, click_through, alpha, is_menu_visible, circle_menu,
                   suggestion_boxes, error_markers, last_op, pre_menu>>
    /\ UNCHANGED <<kbVars, chVars, monVars, fnVars, hkVars, tkVars>>

\* The next statement is a call of _disable_click_through or
\* _enable_click_through.
StyleStep ==
    /\ ov_pc # <<>> /\ Head(ov_pc).do = "click_through"
    /\ click_through' = IF Head(ov_pc).on
                         THEN enable_click_through(click_through)
                         ELSE disable_click_through(click_through)
    /\ ov_pc' = Tail(ov_pc)
    /\ UNCHANGED <<win32, menu_handlers, menu_ran, alpha, is_menu_visible, circle_menu, suggestion_boxes,
                   timers, error_markers, last_op, pre_menu>>
    /\ UNCHANGED <<kbVars, chVars, monVars, fnVars, hkVars, tkVars>>

\* The next statement is self.attributes("-alpha", value).
AlphaStep ==
    /\ ov_pc # <<>> /\ Head(ov_pc).do = "alpha"
    /\ alpha' = Head(ov_pc).value
    /\ ov_pc' = Tail(ov_pc)
    /\ UNCHANGED <<win32, menu_handlers, menu_ran, click_through, is_menu_visible, circle_menu,
                   suggestion_boxes, timers, error_markers, last_op, pre_menu>>
    /\ UNCHANGED <<kbVars, chVars, monVars, fnVars, hkVars, tkVars>>

\* show_menu creates or moves the circle menu and shows it; an exception ends
\* show_menu there.
CircleMenuShowStep ==
    /\ ov_pc # <<>> /\ Head(ov_pc).do = "circle_menu_show"
    /\ LET r0 == IF ~circle_menu.exists
                 THEN [cm |-> CreatedMenu, raised |-> FALSE]
                 ELSE cm_update_position(circle_menu)
           r1 == IF r0.raised THEN r0 ELSE cm_show(r0.cm)
       IN  /\ circle_menu' = r1.cm
           /\ ov_pc' = IF r1.raised THEN <<>> ELSE Tail(ov_pc)
    /\ UNCHANGED <<win32, menu_handlers, menu_ran, click_through, alpha, is_menu_visible,
                   suggestion_boxes, timers, error_markers, last_op, pre_menu>>
    /\ UNCHANGED <<kbVars, chVars, monVars, fnVars, hkVars, tkVars>>

\* hide_menu hides the circle menu when there is one.
CircleMenuHideStep ==
    /\ ov_pc # <<>> /\ Head(ov_pc).do = "circle_menu_hide"
    /\ circle_menu' = IF circle_menu.exists THEN cm_hide(circle_menu)
                                            ELSE circle_menu
    /\ ov_pc' = Tail(ov_pc)
    /\ UNCHANGED <<win32, menu_handlers, menu_ran, click_through, alpha, is_menu_visible,
                   suggestion_boxes, timers, error_markers, last_op, pre_menu>>
    /\ UNCHANGED <<kbVars, chVars, monVars, fnVars, hkVars, tkVars>>

\* self.is_menu_visible = value
MenuFlagStep ==
    /\ ov_pc # <<>> /\ Head(ov_pc).do = "is_menu_visible"
    /\ is_menu_visible' = Head(ov_pc).value
    /\ ov_pc' = Tail(ov_pc)
    /\ UNCHANGED <<win32, menu_handlers, menu_ran, click_through, alpha, circle_menu, suggestion_boxes,
                   timers, error_markers, last_op, pre_menu>>
    /\ UNCHANGED <<kbVars, chVars, monVars, fnVars, hkVars, tkVars>>

\* display_suggestion draws the box and its two texts.
DrawBoxStep ==
    /\ ov_pc # <<>> /\ Head(ov_pc).do = "draw_box"
    /\ suggestion_boxes' = suggestion_boxes + 1
    /\ ov_pc' = Tail(ov_pc)
    /\ UNCHANGED <<win32, menu_handlers, menu_ran, click_through, alpha, is_menu_visible, circle_menu,
                   timers, error_markers, last_op, pre_menu>>
    /\ UNCHANGED <<kbVars, chVars, monVars, fnVars, hkVars, tkVars>>

\* self.after(3000, self.clear_suggestion)
AfterStep ==
    /\ ov_pc # <<>> /\ Head(ov_pc).do = "after"
    /\ timers' = timers + 1
    /\ ov_pc' = Tail(ov_pc)
    /\ UNCHANGED <<win32, menu_handlers, menu_ran, click_through, alpha, is_menu_visible, circle_menu,
                   suggestion_boxes, error_markers, last_op, pre_menu>>
    /\ UNCHANGED <<kbVars, chVars, monVars, fnVars, hkVars, tkVars>>

\* self.canvas.delete("suggestion_box")
DeleteBoxesStep ==
    /\ ov_pc # <<>> /\ Head(ov_pc).do = "delete_boxes"
    /\ suggestion_boxes' = 0
    /\ ov_pc' = Tail(ov_pc)
    /\ UNCHANGED <<win32, menu_handlers, menu_ran, click_through, alpha, is_menu_visible, circle_menu,
                   timers, error_markers, last_op, pre_menu>>
    /\ UNCHANGED <<kbVars, chVars, monVars, fnVars, hkVars, tkVars>>

(***************************************************************************)
(* Capture chain of ImprovedTextMonitor                                    *)
(***************************************************************************)

\* Texts are sequences of characters.
Hello == <<"H", "e", "l", "l", "o">>
Texts == {<<>>, <<"a">>, Hello}

\* buffer_size of the WM_GETTEXT buffer, in code units.
BufferSize == 65536

\* What a pattern of the accessibility element answers: its text, or an error.
PatternAnswers == [ok : BOOLEAN, text : Texts]

\* What the foreign window does when asked for its text:
\*   wm_raises   the SendMessageW call (or loading ctypes) raises
\*   wm_text     the text the window copies into the WM_GETTEXT buffer
\*   uia_raises  UI Automation cannot be initialised or the element not resolved
\*   value       the ValuePattern's CurrentValue, or an error
\*   document    the TextPattern's DocumentRange text, or an error
WindowAnswers ==
    [wm_raises : BOOLEAN, wm_text : Texts, uia_raises : BOOLEAN,
     value : PatternAnswers, document : PatternAnswers]

\* A returned value, or an exception leaving the function.
Returned(t) == [raised |-> FALSE, text |-> t]
Raised      == [raised |-> TRUE, text |-> <<>>]

\* The unicode buffer after WM_GETTEXT: at most BufferSize - 1 characters.
BufferValue(t) ==
    IF Len(t) > BufferSize - 1 THEN SubSeq(t, 1, BufferSize - 1) ELSE t

\* capture_text_via_window_message without its try/except.
wm_unguarded(w) ==
    IF w.wm_raises THEN Raised
    ELSE LET length == Len(BufferValue(w.wm_text)) IN
         IF length > 0 THEN Returned(BufferValue(w.wm_text)) ELSE Returned(<<>>)

\* capture_text_via_window_message(hwnd): the buffer's text when SendMessageW
\* reports a positive length, "" otherwise and on any exception.
capture_text_via_window_message(w) ==
    IF w.wm_raises THEN Returned(<<>>)
    ELSE LET length == Len(BufferValue(w.wm_text)) IN
         IF length > 0 THEN Returned(BufferValue(w.wm_text)) ELSE Returned(<<>>)

\* capture_text_via_uiautomation(hwnd): the ValuePattern's value if that
\* pattern answers, else the TextPattern's document text if that answers, else
\* ""; "" on any exception of the initialisation.
capture_text_via_uiautomation(w) ==
    IF w.uia_raises THEN Returned(<<>>)
    ELSE IF w.value.ok THEN Returned(w.value.text)
    ELSE IF w.document.ok THEN Returned(w.document.text)
    ELSE Returned(<<>>)

Call(strategy, r) == [strategy |-> strategy, raised |-> r.raised, text |-> r.text]

\* capture_text_smart that tries UI Automation first.
capture_text_smart_uia_first(w) ==
    LET r2 == capture_text_via_uiautomation(w)
        r1 == capture_text_via_window_message(w)
    IN  IF r2.text # <<>> THEN [result |-> r2, trace |-> <<Call(2, r2)>>]
        ELSE [result |-> r1, trace |-> <<Call(2, r2), Call(1, r1)>>]

\* capture_text_smart that stops after the window-message strategy.
capture_text_smart_no_fallback(w) ==
    LET r1 == capture_text_via_window_message(w)
    IN  [result |-> r1, trace |-> <<Call(1, r1)>>]

\* capture_text_smart(hwnd): window message first, UI Automation only when the
\* first gave nothing; an exception of a strategy would leave the function.
capture_text_smart(w) ==
    LET r1 == capture_text_via_window_message(w)
        r2 == capture_text_via_uiautomation(w)
    IN  IF r1.raised THEN [result |-> Raised, trace |-> <<Call(1, r1)>>]
        ELSE IF r1.text # <<>> THEN [result |-> r1, trace |-> <<Call(1, r1)>>]
        ELSE IF r2.raised
             THEN [result |-> Raised, trace |-> <<Call(1, r1), Call(2, r2)>>]
        ELSE IF r2.text # <<>>
             THEN [result |-> r2, trace |-> <<Call(1, r1), Call(2, r2)>>]
        ELSE [result |-> Returned(<<>>), trace |-> <<Call(1, r1), Call(2, r2)>>]

NoAnswer == [wm_raises |-> FALSE, wm_text |-> <<>>, uia_raises |-> FALSE,
             value |-> [ok |-> FALSE, text |-> <<>>],
             document |-> [ok |-> FALSE, text |-> <<>>]]

\* The returned object: a Python str, which carries the text and nothing else.
StrValue(t) == [text |-> t]

ChInit ==
    /\ chain_os = NoAnswer
    /\ chain_trace = <<>>
    /\ chain_result = StrValue(<<>>)
    /\ chain_raised = FALSE

\* ImprovedTextMonitor.force_capture(hwnd): one run of the chain against a
\* window that answers as w.
ForceCaptureSmart ==
    \E w \in WindowAnswers :
        LET c == capture_text_smart(w) IN
        /\ chain_os' = w
        /\ chain_trace' = c.trace
        /\ chain_result' = StrValue(c.result.text)
        /\ chain_raised' = c.result.raised
        /\ UNCHANGED <<kbVars, ovVars, monVars, fnVars, stVars, hkVars, tkVars>>

(***************************************************************************)
(* Text monitors: clipboard round trip, monitoring loop, start and stop    *)
(***************************************************************************)

\* Times are in units of 50 ms.
\* config.TEXT_MONITOR["check_interval"] = 0.5 and ["debounce_time"] = 2.0
check_interval == 10
debounce_time  == 40
\* ImprovedTextMonitor.typing_timeout = 3.0
typing_timeout == 60
\* monitor_thread.join(timeout=2.0)
JoinTimeout    == 40
\* time.sleep(0.1), time.sleep(0.2), time.sleep(0.05) of the clipboard capture
SelectAllPause == 2
CopyPause      == 4
DeselectPause  == 1

\* Bounds of the model: the clock starts at StartTime and stops at MaxTime
\* (RaceMaxTime where force_capture runs beside the loop); a
\* blocking call (a subscriber callback, the synchronous window query) returns
\* at once or after LongCall; at most MaxThreads loop threads are created and
\* at most MaxForceCalls calls of force_capture made.
StartTime  == 60
MaxTime    == 120
RaceMaxTime == 110
LongCall   == 45
MaxThreads == 1
MaxLoops == 2
RestartMaxTime == 100
MaxForceCalls == 1

Durations == {0, LongCall}

\* ---- the foreground window -------------------------------------------------

\* editor_keywords of is_text_editor; the Hangul keywords are written by their
\* code points.
editor_keywords ==
    << <<"U+D55C", "U+AE00">>,
       <<"h", "w", "p">>,
       <<"w", "o", "r", "d">>,
       <<"U+BA54", "U+BAA8", "U+C7A5">>,
       <<"n", "o", "t", "e", "p", "a", "d">>,
       <<"s", "u", "b", "l", "i", "m", "e">>,
       <<"v", "s", "c", "o", "d", "e">>,
       <<"c", "o", "d", "e">>,
       <<"a", "t", "o", "m">>,
       <<"n", "o", "t", "e", "p", "a", "d", "+", "+">>,
       <<"e", "d", "i", "t", "p", "l", "u", "s">> >>

\* str.lower() on a text
LowerText(t) == [i \in 1..Len(t) |-> Lower(t[i])]

\* keyword in text
Contains(t, keyword) ==
    \E i \in 0..(Len(t) - Len(keyword)) : SubSeq(t, i + 1, i + Len(keyword)) = keyword

\* get_active_window() returned None: no foreground window, or the query raised.
None == [hwnd |-> 0, title |-> <<>>, class_name |-> <<>>]

\* The windows that can be in the foreground.
Windows ==
    { None,
      [hwnd |-> 1, title |-> <<"m", "e", "m", "o">>,
                   class_name |-> <<"N", "o", "t", "e", "p", "a", "d">>],
      [hwnd |-> 2, title |-> <<"C", "h", "r", "o", "m", "e">>,
                   class_name |-> <<"C", "r", "W", "i", "n">>] }

\* is_text_editor without the two lower() calls.
is_text_editor_case_sensitive(window_info) ==
    IF window_info = None THEN FALSE
    ELSE \E k \in 1..Len(editor_keywords) :
             Contains(window_info.title, editor_keywords[k])
                 \/ Contains(window_info.class_name, editor_keywords[k])

\* is_text_editor(window_info)
is_text_editor(window_info) ==
    IF window_info = None THEN FALSE
    ELSE LET title      == LowerText(window_info.title)
             class_name == LowerText(window_info.class_name)
         IN  \E k \in 1..Len(editor_keywords) :
                 Contains(title, editor_keywords[k])
                     \/ Contains(class_name, editor_keywords[k])

\* pyautogui.position(); last_cursor_pos starts at (0, 0).
Positions == {<<0, 0>>, <<1, 1>>}

\* ---- capture_text_via_clipboard, step by step ------------------------------

\* Thread 0 is the caller; threads 1.. are the loop threads.
ClipThreads == 0..MaxLoops

\* The clipboard contents before a capture.
ClipContents == {<<>>, <<"c">>, Hello}

\* A thread that is not inside capture_text_via_clipboard.
NoCapture == [pc |-> "idle", old_clipboard |-> <<>>, captured_text |-> <<>>,
              entry |-> <<>>, until |-> 0]

\* Entry to capture_text_via_clipboard: captured_text = "", and the clipboard
\* content at entry is remembered for the claims.
EnterCapture == [pc |-> "backup", old_clipboard |-> <<>>, captured_text |-> <<>>,
                 entry |-> clipboard, until |-> 0]

\* A loop thread's clipboard step is part of a capture performed by the loop.
CaptureEffect(t) == IF t = 0 THEN "none" ELSE "capture"

ClipFrame(t) ==
    /\ loop_effect' = CaptureEffect(t)
    /\ UNCHANGED <<monitor_class, is_monitoring, loops, caller, now, last_text,
                   last_change_time, last_cursor_pos, text_change_callback,
                   cursor_change_callback, stop_returned, force_calls>>
    /\ UNCHANGED <<kbVars, ovVars, chVars, fnVars, stVars, hkVars, tkVars>>

\* 1. old_clipboard = pyperclip.paste(), "" when the read fails.
ClipBackup ==
    \E t \in ClipThreads, ok \in BOOLEAN :
        /\ clip[t].pc = "backup"
        /\ clip' = [clip EXCEPT ![t].pc = "clear",
                                ![t].old_clipboard = IF ok THEN clipboard ELSE <<>>]
        /\ UNCHANGED clipboard
        /\ ClipFrame(t)

\* 2. pyperclip.copy(""); an exception leaves through the outer except.
ClipClear ==
    \E t \in ClipThreads, ok \in BOOLEAN :
        /\ clip[t].pc = "clear"
        /\ clip' = [clip EXCEPT ![t].pc = IF ok THEN "select_all" ELSE "done"]
        /\ clipboard' = IF ok THEN <<>> ELSE clipboard
        /\ ClipFrame(t)

\* 3. pyautogui.hotkey('ctrl', 'a'); time.sleep(0.1)
ClipSelectAll ==
    \E t \in ClipThreads, ok \in BOOLEAN :
        /\ clip[t].pc = "select_all"
        /\ clip' = [clip EXCEPT ![t].pc = IF ok THEN "copy" ELSE "done",
                                ![t].until = IF ok THEN now + SelectAllPause ELSE @]
        /\ UNCHANGED clipboard
        /\ ClipFrame(t)

\* 4. pyautogui.hotkey('ctrl', 'c'); time.sleep(0.2).  The foreground
\* application puts its selected text on the clipboard; with nothing selected
\* it leaves the clipboard alone.
ClipCopy ==
    \E t \in ClipThreads, ok \in BOOLEAN, document \in Texts :
        /\ clip[t].pc = "copy"
        /\ now >= clip[t].until
        /\ clip' = [clip EXCEPT ![t].pc = IF ok THEN "read" ELSE "done",
                                ![t].until = IF ok THEN now + CopyPause ELSE @]
        /\ clipboard' = IF ok /\ document # <<>> THEN document ELSE clipboard
        /\ ClipFrame(t)

\* 5. captured_text = pyperclip.paste(), "" when the read fails.
ClipRead ==
    \E t \in ClipThreads, ok \in BOOLEAN :
        /\ clip[t].pc = "read"
        /\ now >= clip[t].until
        /\ clip' = [clip EXCEPT ![t].pc = "restore",
                                ![t].captured_text = IF ok THEN clipboard ELSE <<>>]
        /\ UNCHANGED clipboard
        /\ ClipFrame(t)

\* 6. pyperclip.copy(old_clipboard)
ClipRestore ==
    \E t \in ClipThreads, ok \in BOOLEAN :
        /\ clip[t].pc = "restore"
        /\ clip' = [clip EXCEPT ![t].pc = IF ok THEN "deselect" ELSE "done"]
        /\ clipboard' = IF ok THEN clip[t].old_clipboard ELSE clipboard
        /\ ClipFrame(t)

\* 7. pyautogui.press('escape'); time.sleep(0.05)
ClipDeselect ==
    \E t \in ClipThreads, ok \in BOOLEAN :
        /\ clip[t].pc = "deselect"
        /\ clip' = [clip EXCEPT ![t].pc = IF ok THEN "settle" ELSE "done",
                                ![t].until = IF ok THEN now + DeselectPause ELSE @]
        /\ UNCHANGED clipboard
        /\ ClipFrame(t)

\* The capture is at its return statement: after the last sleep, or after the
\* except block.
ClipFinished(t) ==
    clip[t].pc = "done" \/ (clip[t].pc = "settle" /\ now >= clip[t].until)

\* The thread has a clipboard step to take now.
ClipReady(t) ==
    /\ clip[t].pc \in {"backup", "clear", "select_all", "copy", "read", "restore",
                       "deselect", "settle", "done"}
    /\ now >= clip[t].until

\* ---- the caller: force_capture, start_monitoring, stop_monitoring ----------

CallerFrame ==
    /\ loop_effect' = "none"
    /\ UNCHANGED <<monitor_class, now, last_text, last_change_time, last_cursor_pos,
                   text_change_callback, cursor_change_callback>>
    /\ UNCHANGED <<kbVars, ovVars, chVars, fnVars, stVars, hkVars, tkVars>>

Idle == [pc |-> "idle", until |-> 0]

\* TextMonitor.force_capture(): enters capture_text_via_clipboard.
ForceCapture ==
    /\ monitor_class = "TextMonitor"
    /\ caller.pc = "idle"
    /\ force_calls < MaxForceCalls
    /\ force_calls' = force_calls + 1
    /\ caller' = [caller EXCEPT !.pc = "force_capture"]
    /\ clip' = [clip EXCEPT ![0] = EnterCapture]
    /\ UNCHANGED <<is_monitoring, loops, clipboard, stop_returned>>
    /\ CallerFrame

\* A force_capture that records what it captured as the last text.
ForceCaptureReturn_records ==
    /\ caller.pc = "force_capture"
    /\ ClipFinished(0)
    /\ caller' = Idle
    /\ clip' = [clip EXCEPT ![0].pc = "returned", ![0].old_clipboard = <<>>,
                            ![0].until = 0]
    /\ last_text' = clip[0].captured_text
    /\ last_change_time' = now
    /\ loop_effect' = "none"
    /\ UNCHANGED <<is_monitoring, loops, clipboard, stop_returned, force_calls,
                   monitor_class, now, last_cursor_pos, text_change_callback,
                   cursor_change_callback>>
    /\ UNCHANGED <<kbVars, ovVars, chVars, fnVars, stVars, hkVars, tkVars>>

\* force_capture returns the captured text; the capture's locals are gone and
\* nothing of the monitor changes.
ForceCaptureReturn ==
    /\ caller.pc = "force_capture"
    /\ ClipFinished(0)
    /\ caller' = Idle
    /\ clip' = [clip EXCEPT ![0].pc = "returned", ![0].old_clipboard = <<>>,
                            ![0].until = 0]
    /\ UNCHANGED <<is_monitoring, loops, clipboard, stop_returned, force_calls>>
    /\ CallerFrame

\* A new loop thread, about to test the while condition; empty tells that the
\* capture of the thread's latest tick returned no text; skipped tells that the
\* thread's latest tick found no supported editor in the foreground.
NewLoop == [pc |-> "while", until |-> 0, current_time |-> 0, skipped |-> FALSE,
            empty |-> FALSE]

\* start_monitoring that does not test the flag.
start_monitoring_unguarded(flag, threads) ==
    [is_monitoring |-> TRUE, loops |-> Append(threads, NewLoop)]

\* start_monitoring(): a no-op when already monitoring; else set the flag and
\* start a new daemon thread on _monitoring_loop.
start_monitoring(flag, threads) ==
    IF flag THEN [is_monitoring |-> flag, loops |-> threads]
    ELSE [is_monitoring |-> TRUE, loops |-> Append(threads, NewLoop)]

\* A call of start_monitoring() that leaves at most max threads created.
StartMonitoringWithin(max) ==
    LET r == start_monitoring(is_monitoring, loops) IN
    /\ caller.pc = "idle"
    /\ Len(r.loops) <= max
    /\ is_monitoring' = r.is_monitoring
    /\ loops' = r.loops
    /\ stop_returned' = IF Len(r.loops) = Len(loops) THEN stop_returned ELSE FALSE
    /\ UNCHANGED <<caller, clip, clipboard, force_calls>>
    /\ CallerFrame

StartMonitoring == StartMonitoringWithin(MaxThreads)

RestartMonitoring == StartMonitoringWithin(MaxLoops)

\* stop_monitoring(): clear the flag, then join the latest thread for at most
\* JoinTimeout; without a thread it returns at once.
StopMonitoring ==
    /\ caller.pc = "idle"
    /\ is_monitoring' = FALSE
    /\ caller' = IF Len(loops) = 0 THEN caller
                 ELSE [pc |-> "joining", until |-> now + JoinTimeout]
    /\ stop_returned' = IF Len(loops) = 0 THEN TRUE ELSE stop_returned
    /\ UNCHANGED <<loops, clip, clipboard, force_calls>>
    /\ CallerFrame

\* The join is over: the thread has ended, or the timeout has passed.
JoinOver ==
    /\ caller.pc = "joining"
    /\ (loops[Len(loops)].pc = "exited" \/ now >= caller.until)

\* join returns and stop_monitoring returns with it.
StopMonitoringReturn ==
    /\ JoinOver
    /\ caller' = Idle
    /\ stop_returned' = TRUE
    /\ UNCHANGED <<is_monitoring, loops, clip, clipboard, force_calls>>
    /\ CallerFrame

\* ---- _monitoring_loop -------------------------------------------------------

LoopFrame ==
    /\ UNCHANGED <<monitor_class, is_monitoring, caller, clipboard, now,
                   text_change_callback, cursor_change_callback, stop_returned,
                   force_calls>>
    /\ UNCHANGED <<kbVars, ovVars, chVars, fnVars, stVars, hkVars, tkVars>>

\* time.sleep(self.check_interval) at the end of a tick
Sleeping(thread) == [thread EXCEPT !.pc = "sleep", !.until = now + check_interval,
                                    !.skipped = FALSE, !.empty = FALSE]

\* while self.is_monitoring, flag cleared: the thread ends.
LoopExit ==
    \E i \in 1..Len(loops) :
        /\ loops[i].pc = "while"
        /\ ~is_monitoring
        /\ loops' = [loops EXCEPT ![i].pc = "exited"]
        /\ loop_effect' = "none"
        /\ UNCHANGED <<clip, last_text, last_change_time, last_cursor_pos>>
        /\ LoopFrame

\* The tick of a variant of the loop that reads and records the pointer
\* position before it tests the window.
TickOn_position_first(thread, window_info, cursor_pos, d) ==
    IF ~is_text_editor(window_info)
    THEN [thread |-> [Sleeping(thread) EXCEPT !.skipped = TRUE],
          last_cursor_pos |-> cursor_pos,
          effect |-> "none"]
    ELSE [thread |-> [thread EXCEPT !.pc = "gate", !.skipped = FALSE],
          last_cursor_pos |-> cursor_pos,
          effect |-> "none"]

\* The tick up to the quiet test, in a thread that finds window_info in the
\* foreground and the pointer at cursor_pos: without a supported editor the
\* tick is over; with one it records a changed position and calls the cursor
\* callback, which takes d to return.
TickOn(thread, window_info, cursor_pos, d) ==
    IF ~is_text_editor(window_info)
    THEN [thread |-> [Sleeping(thread) EXCEPT !.skipped = TRUE],
          last_cursor_pos |-> last_cursor_pos,
          effect |-> "none"]
    ELSE [thread |-> IF cursor_pos # last_cursor_pos /\ cursor_change_callback
                     THEN [thread EXCEPT !.pc = "cursor_cb", !.until = now + d,
                                         !.skipped = FALSE]
                     ELSE [thread EXCEPT !.pc = "gate",
                                         !.skipped = FALSE],
          last_cursor_pos |-> cursor_pos,
          effect |-> IF cursor_pos # last_cursor_pos /\ cursor_change_callback
                     THEN "cursor_cb" ELSE "none"]

\* while self.is_monitoring, flag set: the tick reads the foreground window;
\* for an editor it reads the pointer position, records a changed position and
\* calls the cursor callback.
LoopTick ==
    \E i \in 1..Len(loops), window_info \in Windows, cursor_pos \in Positions,
       d \in Durations :
        LET r == TickOn(loops[i], window_info, cursor_pos, d) IN
        /\ loops[i].pc = "while"
        /\ is_monitoring
        /\ loops' = [loops EXCEPT ![i] = r.thread]
        /\ last_cursor_pos' = r.last_cursor_pos
        /\ loop_effect' = r.effect
        /\ UNCHANGED <<clip, last_text, last_change_time>>
        /\ LoopFrame

\* The cursor callback returns, or raises into the tick's except block.
CursorCallbackDone ==
    \E i \in 1..Len(loops), raises \in BOOLEAN :
        /\ loops[i].pc = "cursor_cb"
        /\ now >= loops[i].until
        /\ loops' = [loops EXCEPT ![i] = IF raises THEN Sleeping(@)
                                         ELSE [@ EXCEPT !.pc = "gate"]]
        /\ loop_effect' = "none"
        /\ UNCHANGED <<clip, last_text, last_change_time, last_cursor_pos>>
        /\ LoopFrame

\* ImprovedTextMonitor.detect_typing() at time t
detect_typing(t) == t - last_change_time < typing_timeout

\* A variant of the quiet test with the operands of the subtraction exchanged.
QuietOver_reversed(t, last, period) == last - t >= period

\* The quiet test of the loop: current_time - self.last_change_time >=
\* self.debounce_time.
QuietOver(t, last, period) == t - last >= period

\* A variant of the test in which both classes test the debounce time alone.
CaptureDue_debounce_only(t) == QuietOver(t, last_change_time, debounce_time)

\* The test that lets a tick capture at time t: TextMonitor tests the debounce
\* time; ImprovedTextMonitor tests detect_typing first.
CaptureDue(t) ==
    IF monitor_class = "TextMonitor"
    THEN QuietOver(t, last_change_time, debounce_time)
    ELSE ~detect_typing(t) /\ QuietOver(t, last_change_time, debounce_time)

\* The tick reads the time and, when a capture is due, starts it:
\* capture_text_via_clipboard in TextMonitor, capture_text_smart, which takes d
\* to return, in ImprovedTextMonitor.
LoopGate ==
    \E i \in 1..Len(loops), d \in Durations :
        /\ loops[i].pc = "gate"
        /\ IF CaptureDue(now)
           THEN /\ loops' = [loops EXCEPT ![i].pc = "capturing",
                                          ![i].current_time = now,
                                          ![i].until =
                                              IF monitor_class = "TextMonitor"
                                              THEN now ELSE now + d]
                /\ clip' = IF monitor_class = "TextMonitor"
                           THEN [clip EXCEPT ![i] = EnterCapture] ELSE clip
                /\ loop_effect' = "capture"
           ELSE /\ loops' = [loops EXCEPT ![i] = Sleeping(@)]
                /\ loop_effect' = "none"
                /\ UNCHANGED clip
        /\ UNCHANGED <<last_text, last_change_time, last_cursor_pos>>
        /\ LoopFrame

\* The tick ends without a record; the thread notes whether the capture
\* returned no text at all.
NothingNew(thread, captured_text) ==
    [Sleeping(thread) EXCEPT !.empty = (captured_text = <<>>)]

\* A variant in which an empty result starts a new quiet period.
AfterCapture_empty_restarts_quiet(i, captured_text, d) ==
    IF captured_text # <<>> /\ captured_text # last_text
    THEN /\ last_text' = captured_text
         /\ last_change_time' = loops[i].current_time
         /\ IF text_change_callback
            THEN /\ loops' = [loops EXCEPT ![i].pc = "text_cb", ![i].until = now + d]
                 /\ loop_effect' = "text_cb"
            ELSE /\ loops' = [loops EXCEPT ![i] = Sleeping(@)]
                 /\ loop_effect' = "none"
    ELSE /\ loops' = [loops EXCEPT ![i] = NothingNew(@, captured_text)]
         /\ loop_effect' = "none"
         /\ last_change_time' = IF captured_text = <<>> THEN loops[i].current_time
                                 ELSE last_change_time
         /\ UNCHANGED last_text

\* A variant that records every result that differs from last_text, the empty
\* one too.
AfterCapture_any_difference(i, captured_text, d) ==
    IF captured_text # last_text
    THEN /\ last_text' = captured_text
         /\ last_change_time' = loops[i].current_time
         /\ IF text_change_callback
            THEN /\ loops' = [loops EXCEPT ![i].pc = "text_cb", ![i].until = now + d]
                 /\ loop_effect' = "text_cb"
            ELSE /\ loops' = [loops EXCEPT ![i] = Sleeping(@)]
                 /\ loop_effect' = "none"
    ELSE /\ loops' = [loops EXCEPT ![i] = NothingNew(@, captured_text)]
         /\ loop_effect' = "none"
         /\ UNCHANGED <<last_text, last_change_time>>

\* After the capture returned captured_text: a non-empty text that differs from
\* last_text is recorded with the tick's time and handed to the text callback,
\* which takes d to return.
AfterCapture(i, captured_text, d) ==
    IF captured_text # <<>> /\ captured_text # last_text
    THEN /\ last_text' = captured_text
         /\ last_change_time' = loops[i].current_time
         /\ IF text_change_callback
            THEN /\ loops' = [loops EXCEPT ![i].pc = "text_cb", ![i].until = now + d]
                 /\ loop_effect' = "text_cb"
            ELSE /\ loops' = [loops EXCEPT ![i] = Sleeping(@)]
                 /\ loop_effect' = "none"
    ELSE /\ loops' = [loops EXCEPT ![i] = NothingNew(@, captured_text)]
         /\ loop_effect' = "none"
         /\ UNCHANGED <<last_text, last_change_time>>

\* The texts capture_text_smart can return, over all answers of the window.
SmartResults == {capture_text_smart(w).result.text : w \in WindowAnswers}

\* ImprovedTextMonitor: capture_text_smart(hwnd) returns captured_text in
\* thread i.
SmartCaptureReturns(i, captured_text, d) ==
    /\ monitor_class = "ImprovedTextMonitor"
    /\ loops[i].pc = "capturing"
    /\ now >= loops[i].until
    /\ AfterCapture(i, captured_text, d)
    /\ UNCHANGED <<clip, last_cursor_pos>>
    /\ LoopFrame

SmartCaptureDone ==
    \E i \in 1..Len(loops), captured_text \in SmartResults, d \in Durations :
        SmartCaptureReturns(i, captured_text, d)

\* TextMonitor: capture_text_via_clipboard() returns in thread i.
ClipCaptureReturns(i, d) ==
    /\ monitor_class = "TextMonitor"
    /\ loops[i].pc = "capturing"
    /\ ClipFinished(i)
    /\ AfterCapture(i, clip[i].captured_text, d)
    /\ clip' = [clip EXCEPT ![i] = NoCapture]
    /\ UNCHANGED last_cursor_pos
    /\ LoopFrame

ClipCaptureDone ==
    \E i \in 1..Len(loops), d \in Durations : ClipCaptureReturns(i, d)

\* The text callback returns or raises; either way the tick goes to its sleep.
TextCallbackDone ==
    \E i \in 1..Len(loops) :
        /\ loops[i].pc = "text_cb"
        /\ now >= loops[i].until
        /\ loops' = [loops EXCEPT ![i] = Sleeping(@)]
        /\ loop_effect' = "none"
        /\ UNCHANGED <<clip, last_text, last_change_time, last_cursor_pos>>
        /\ LoopFrame

\* The sleep is over: back to the while test.
LoopWake ==
    \E i \in 1..Len(loops) :
        /\ loops[i].pc = "sleep"
        /\ now >= loops[i].until
        /\ loops' = [loops EXCEPT ![i].pc = "while", ![i].skipped = FALSE,
                                  ![i].empty = FALSE]
        /\ loop_effect' = "none"
        /\ UNCHANGED <<clip, last_text, last_change_time, last_cursor_pos>>
        /\ LoopFrame

\* ---- time -------------------------------------------------------------------

\* The loop thread has a step to take now.
LoopReady(i) ==
    CASE loops[i].pc \in {"while", "gate"} -> TRUE
      [] loops[i].pc \in {"cursor_cb", "text_cb", "sleep"} -> now >= loops[i].until
      [] loops[i].pc = "capturing" ->
            IF monitor_class = "TextMonitor" THEN ClipReady(i)
            ELSE now >= loops[i].until
      [] OTHER -> FALSE

\* The caller has a step to take now.
CallerReady ==
    CASE caller.pc = "joining" -> JoinOver
      [] caller.pc = "force_capture" -> ClipReady(0)
      [] OTHER -> FALSE

\* The times at which a waiting thread goes on: the end of a sleep or of a
\* blocking call, the timeout of the join.
Deadlines ==
    {loops[i].until : i \in {j \in 1..Len(loops) :
        \/ loops[j].pc \in {"cursor_cb", "text_cb", "sleep"}
        \/ loops[j].pc = "capturing" /\ monitor_class = "ImprovedTextMonitor"}}
    \cup {clip[t].until : t \in {u \in ClipThreads :
              clip[u].pc \notin {"idle", "returned"}}}
    \cup (IF caller.pc = "joining" THEN {caller.until} ELSE {})

NextDeadline == CHOOSE d \in Deadlines : \A e \in Deadlines : d <= e

\* The clock advances when every thread is waiting for a later time or for a
\* call from outside; it advances to the time the first of them goes on, as
\* long as that time is within the horizon.
AdvanceWithin(horizon) ==
    /\ ~CallerReady
    /\ \A i \in 1..Len(loops) : ~LoopReady(i)
    /\ Deadlines # {}
    /\ NextDeadline <= horizon
    /\ now' = NextDeadline
    /\ loop_effect' = "none"
    /\ UNCHANGED <<monitor_class, is_monitoring, loops, caller, clip, clipboard,
                   last_text, last_change_time, last_cursor_pos,
                   text_change_callback, cursor_change_callback, stop_returned,
                   force_calls>>
    /\ UNCHANGED <<kbVars, ovVars, chVars, fnVars, stVars, hkVars, tkVars>>

Advance == AdvanceWithin(MaxTime)

RaceAdvance == AdvanceWithin(RaceMaxTime)

RestartAdvance == AdvanceWithin(RestartMaxTime)

\* ---- construction -----------------------------------------------------------

\* __init__ of the monitor, with the clipboard holding content.
MonFresh ==
    /\ is_monitoring = FALSE
    /\ loops = <<>>
    /\ caller = Idle
    /\ clip = [t \in ClipThreads |-> NoCapture]
    /\ now = StartTime
    /\ last_text = <<>>
    /\ last_change_time = 0
    /\ last_cursor_pos = <<0, 0>>
    /\ stop_returned = FALSE
    /\ force_calls = 0
    /\ loop_effect = "none"

\* Either monitor after __init__ and the registration of callbacks.
MonInit ==
    /\ monitor_class \in {"TextMonitor", "ImprovedTextMonitor"}
    /\ text_change_callback \in BOOLEAN
    /\ cursor_change_callback \in BOOLEAN
    /\ clipboard = <<"c">>
    /\ MonFresh

\* A TextMonitor after __init__, with any content on the clipboard.
ClipInit ==
    /\ monitor_class = "TextMonitor"
    /\ text_change_callback = FALSE
    /\ cursor_change_callback = FALSE
    /\ clipboard \in ClipContents
    /\ MonFresh

\* A TextMonitor after __init__, without subscribers.
RaceInit ==
    /\ monitor_class = "TextMonitor"
    /\ text_change_callback = FALSE
    /\ cursor_change_callback = FALSE
    /\ clipboard = <<"c">>
    /\ MonFresh

MonIdle ==
    /\ monitor_class = "ImprovedTextMonitor"
    /\ text_change_callback = FALSE
    /\ cursor_change_callback = FALSE
    /\ clipboard = <<>>
    /\ MonFresh

(***************************************************************************)
(* The monitoring loop, statement by statement                             *)
(***************************************************************************)

\* One loop thread of either monitor, with the calls of the capture chain as
\* steps of their own. The clock is not part of this view: the quiet test may
\* go either way, and last_change_time is left to the other view.

TkIdle ==
    /\ tick_pc = "idle"
    /\ tick_trace = <<>>
    /\ tick_text = <<>>
    /\ responding = TRUE

TkInit ==
    /\ tick_pc = "idle"
    /\ tick_trace = <<>>
    /\ tick_text = <<>>
    /\ responding \in BOOLEAN

TickFrame ==
    /\ UNCHANGED <<monitor_class, loops, caller, clip, clipboard, now,
                   last_change_time, text_change_callback, cursor_change_callback,
                   stop_returned, force_calls, loop_effect>>
    /\ UNCHANGED <<kbVars, ovVars, chVars, fnVars, stVars, hkVars>>

At(pc) == tick_pc = pc

\* The thread goes on to statement pc, having done what `done` lists.
Goto(pc, done) ==
    /\ tick_pc' = pc
    /\ tick_trace' = tick_trace \o done

\* start_monitoring(): nothing when already monitoring, else the flag is set
\* and the thread started.
TickStartMonitoring ==
    /\ tick_pc \in {"idle", "exited"}
    /\ ~is_monitoring
    /\ is_monitoring' = TRUE
    /\ tick_pc' = "while"
    /\ UNCHANGED <<tick_trace, tick_text, responding, last_text, last_cursor_pos>>
    /\ TickFrame

\* stop_monitoring(): the flag is cleared; the join only waits.
TickStopMonitoring ==
    /\ tick_pc # "idle"
    /\ is_monitoring
    /\ is_monitoring' = FALSE
    /\ UNCHANGED <<tkVars, last_text, last_cursor_pos>>
    /\ TickFrame

\* The foreign window's thread stops handling its messages, or handles them
\* again.
WindowHangs ==
    /\ responding' = ~responding
    /\ UNCHANGED <<tick_pc, tick_trace, tick_text, is_monitoring, last_text,
                   last_cursor_pos>>
    /\ TickFrame

\* while self.is_monitoring: a new tick begins, or the thread ends.
TickWhile ==
    /\ At("while")
    /\ IF is_monitoring
       THEN tick_pc' = "window" /\ tick_trace' = <<>>
       ELSE tick_pc' = "exited" /\ UNCHANGED tick_trace
    /\ UNCHANGED <<tick_text, responding, is_monitoring, last_text, last_cursor_pos>>
    /\ TickFrame

\* A loop that goes to the quiet test without looking at the pointer.
AfterWindow_capture_first(editor) ==
    IF editor THEN Goto("quiet", <<>>) ELSE Goto("sleep", <<>>)

\* if window_info and self.is_text_editor(window_info): the pointer is read
\* next; otherwise the tick goes to its sleep.
AfterWindow(editor) ==
    IF editor THEN Goto("position", <<>>) ELSE Goto("sleep", <<>>)

\* get_active_window() and is_text_editor(window_info); get_active_window
\* turns its own exceptions into None.
TickWindow ==
    \E window_info \in Windows :
        /\ At("window")
        /\ AfterWindow(window_info # None /\ is_text_editor(window_info))
        /\ UNCHANGED <<tick_text, responding, is_monitoring, last_text,
                       last_cursor_pos>>
        /\ TickFrame

\* A loop that calls the callback for a changed position without recording the
\* position.
TickPositionReads_keeps_old(cursor_pos) ==
    /\ At("position")
    /\ UNCHANGED last_cursor_pos
    /\ IF cursor_pos # last_cursor_pos /\ cursor_change_callback
       THEN Goto("cursor_cb", <<"position", "cursor_cb">>)
       ELSE Goto("quiet", <<"position">>)
    /\ UNCHANGED <<tick_text, responding, is_monitoring, last_text>>
    /\ TickFrame

\* cursor_pos = self.get_cursor_position() and its comparison with
\* last_cursor_pos; the callback is called when the position changed and a
\* callback is registered.
TickPositionReads(cursor_pos) ==
    /\ At("position")
    /\ IF cursor_pos # last_cursor_pos
       THEN /\ last_cursor_pos' = cursor_pos
            /\ IF cursor_change_callback
               THEN Goto("cursor_cb", <<"position", "cursor_cb">>)
               ELSE Goto("quiet", <<"position">>)
       ELSE /\ UNCHANGED last_cursor_pos
            /\ Goto("quiet", <<"position">>)
    /\ UNCHANGED <<tick_text, responding, is_monitoring, last_text>>
    /\ TickFrame

TickPosition == \E cursor_pos \in Positions : TickPositionReads(cursor_pos)

\* An exception that leaves the loop: the thread ends.
Uncontained ==
    /\ tick_pc' = "exited"
    /\ tick_trace' = tick_trace \o <<"except">>

\* An exception reaches the try of the loop body: it is printed and the tick
\* goes to its sleep.
Contained == Goto("sleep", <<"except">>)

\* The cursor callback returns, or raises.
TickCursorCallback ==
    \E raises \in BOOLEAN :
        /\ At("cursor_cb")
        /\ IF raises THEN Contained ELSE Goto("quiet", <<"cursor_cb_end">>)
        /\ UNCHANGED <<tick_text, responding, is_monitoring, last_text,
                       last_cursor_pos>>
        /\ TickFrame

\* The quiet test (detect_typing and the debounce test, or the debounce test
\* alone): the capture is called when it passes.
TickQuiet ==
    \E due \in BOOLEAN :
        /\ At("quiet")
        /\ IF ~due THEN Goto("sleep", <<>>)
           ELSE IF monitor_class = "ImprovedTextMonitor"
                THEN Goto("wm_call", <<"capture">>)
                ELSE Goto("clipboard", <<"capture">>)
        /\ UNCHANGED <<tick_text, responding, is_monitoring, last_text,
                       last_cursor_pos>>
        /\ TickFrame

\* SendMessageW(hwnd, WM_GETTEXT, ...) returns once the window's thread has
\* handled the message.
SendMessageW_returns(window_responds) == window_responds

\* capture_text_via_window_message(hwnd) inside capture_text_smart: the text
\* is returned when there is one, else the chain goes on to UI Automation.
TickWindowMessage ==
    \E wm_raises \in BOOLEAN, wm_text \in Texts :
        LET answer == [NoAnswer EXCEPT !.wm_raises = wm_raises,
                                       !.wm_text = wm_text]
            text   == capture_text_via_window_message(answer).text
        IN  /\ At("wm_call")
            /\ SendMessageW_returns(responding)
            /\ tick_text' = text
            /\ IF text # <<>> THEN Goto("compare", <<"capture_end">>)
               ELSE Goto("uia_call", <<>>)
            /\ UNCHANGED <<responding, is_monitoring, last_text, last_cursor_pos>>
            /\ TickFrame

\* capture_text_via_uiautomation(hwnd) inside capture_text_smart.
TickUIAutomation ==
    \E w \in WindowAnswers :
        /\ At("uia_call")
        /\ tick_text' = capture_text_via_uiautomation(w).text
        /\ Goto("compare", <<"capture_end">>)
        /\ UNCHANGED <<responding, is_monitoring, last_text, last_cursor_pos>>
        /\ TickFrame

\* capture_text_via_clipboard() of TextMonitor, as one step.
TickClipboard ==
    \E text \in ClipContents :
        /\ At("clipboard")
        /\ tick_text' = text
        /\ Goto("compare", <<"capture_end">>)
        /\ UNCHANGED <<responding, is_monitoring, last_text, last_cursor_pos>>
        /\ TickFrame

\* if captured_text and captured_text != self.last_text
TickCompare ==
    /\ At("compare")
    /\ IF tick_text # <<>> /\ tick_text # last_text
       THEN /\ last_text' = tick_text
            /\ IF text_change_callback
               THEN Goto("text_cb", <<"text_cb">>)
               ELSE Goto("sleep", <<>>)
       ELSE /\ UNCHANGED last_text
            /\ Goto("sleep", <<>>)
    /\ UNCHANGED <<tick_text, responding, is_monitoring, last_cursor_pos>>
    /\ TickFrame

\* The text callback returns, or raises.
TickTextCallback ==
    \E raises \in BOOLEAN :
        /\ At("text_cb")
        /\ IF raises THEN Contained ELSE Goto("sleep", <<"text_cb_end">>)
        /\ UNCHANGED <<tick_text, responding, is_monitoring, last_text,
                       last_cursor_pos>>
        /\ TickFrame

\* time.sleep(self.check_interval) returns.
TickSleep ==
    /\ At("sleep")
    /\ tick_pc' = "while"
    /\ UNCHANGED <<tick_trace, tick_text, responding, is_monitoring, last_text,
                   last_cursor_pos>>
    /\ TickFrame

\* The steps of the loop thread.
TickThread ==
    \/ TickWhile
    \/ TickWindow
    \/ TickPosition
    \/ TickCursorCallback
    \/ TickQuiet
    \/ TickWindowMessage
    \/ TickUIAutomation
    \/ TickClipboard
    \/ TickCompare
    \/ TickTextCallback
    \/ TickSleep

(***************************************************************************)
(* Functions applied on their own                                          *)
(***************************************************************************)

NoApplication == [fn |-> "none"]

FnIdle ==
    /\ fn_args = NoApplication
    /\ fn_result = FALSE

\* Bounds: the times of the recorded change and the quiet periods tried, in ms.
MaxChangeTime == 6
MaxPeriod == 5

\* One evaluation of the quiet test with a change recorded at t0, a quiet
\* period and a time of evaluation around the end of the period.
QuietTest ==
    \E t0 \in 0..MaxChangeTime, period \in 1..MaxPeriod :
        \E t \in t0..(t0 + period + 2) :
            /\ fn_args' = [fn |-> "quiet", last_change_time |-> t0,
                           debounce_time |-> period, current_time |-> t]
            /\ fn_result' = QuietOver(t, t0, period)
            /\ UNCHANGED <<kbVars, ovVars, chVars, monVars, stVars, hkVars, tkVars>>

\* The window titles and class names is_text_editor is applied to: with and
\* without a keyword, in either case, with part of a keyword, empty.
Titles ==
    { <<>>,
      <<"m", "e", "m", "o">>,
      <<"H", "W", "P">>,
      <<"M", "y", " ", "W", "o", "r", "d">>,
      <<"C", "h", "r", "o", "m", "e">>,
      <<"U+D55C", "U+AE00">>,
      <<"n", "o", "t", "e", "p", "a", "d", "+", "+">>,
      <<"V", "s", " ", "C", "o", "d", "e">>,
      <<"A", "t", "o", "m", "i", "c">>,
      <<"S", "u", "b">>,
      <<"E", "d", "i", "t", "P", "l", "u", "s">>,
      <<"U+BA54", "U+BAA8", "U+C7A5">>,
      <<"U+BA54", "U+BAA8">>,
      <<"N", "O", "T", "E", " ", "P", "A", "D">> }

ClassNames ==
    { <<>>,
      <<"N", "o", "t", "e", "p", "a", "d">>,
      <<"C", "r", "W", "i", "n">>,
      <<"O", "p", "u", "s", "A", "p", "p">>,
      <<"H", "w", "p", "A", "p", "p">>,
      <<"S", "U", "B", "L", "I", "M", "E">>,
      <<"E", "d", "i", "t">>,
      <<"X", "L", "M", "A", "I", "N">> }

TestWindows ==
    {None} \cup {[hwnd |-> 1, title |-> t, class_name |-> c] :
                     t \in Titles, c \in ClassNames}

\* One application of is_text_editor.
EditorTest ==
    \E window_info \in TestWindows :
        /\ fn_args' = [fn |-> "is_text_editor", window_info |-> window_info]
        /\ fn_result' = is_text_editor(window_info)
        /\ UNCHANGED <<kbVars, ovVars, chVars, monVars, stVars, hkVars, tkVars>>

\* ---- a chord configured with a key name that cannot be parsed ---------------

\* The key names with a branch of their own in KeyboardHook._parse_hotkey, and
\* in the parse_hotkey of ImprovedKeyboardHook._start_with_pynput.
SpecialNames(class) ==
    IF class = "KeyboardHook"
    THEN {"alt", "ctrl", "shift", "enter", "esc", "space"}
    ELSE {"alt", "ctrl", "shift", "enter", "esc"}

\* The key a name stands for when it is parsed.
ParsedKey(class, name) ==
    IF Lower(name) \in SpecialNames(class)
    THEN NamedKey(Lower(name))
    ELSE CharKey(Lower(name))

\* _parse_hotkey / parse_hotkey where keyboard.KeyCode.from_char raises for the
\* names in `unparsable`: the except clause prints the name and adds nothing.
parse_hotkey_except(class, keys, unparsable) ==
    { ParsedKey(class, keys[i]) :
        i \in {j \in 1..Len(keys) :
                  Lower(keys[j]) \in SpecialNames(class)
                      \/ Lower(keys[j]) \notin unparsable} }

\* The chord test of _on_press / on_press on the set of pressed keys.
ChordMatches(combo, pressed) == combo \subseteq pressed

\* Configured chords: the shipped one, and chords with names outside a-z.
ConfiguredChords ==
    { <<"ctrl", "shift", "s">>,
      <<"Ctrl", "shift", "f13">>,
      <<"f13">>,
      <<"space", "s">> }

\* The names from_char may refuse.
RefusedNames == {"f13", "space"}

\* The keys that can be held down, the key of a refused name among them.
HeldKeys == {NamedKey("ctrl"), NamedKey("shift"), CharKey("s"), CharKey("f13")}

\* A listener constructed from a configured chord, and a key-down that leaves
\* the set `pressed` held.
ChordTest ==
    \E class \in {"KeyboardHook", "ImprovedKeyboardHook"},
       keys \in ConfiguredChords,
       unparsable \in SUBSET RefusedNames,
       pressed \in (SUBSET HeldKeys) \ {{}} :
        LET combo == parse_hotkey_except(class, keys, unparsable) IN
        /\ fn_args' = [fn |-> "chord", class |-> class, keys |-> keys,
                       unparsable |-> unparsable, pressed |-> pressed]
        /\ fn_result' = [combo |-> combo, matches |-> ChordMatches(combo, pressed)]
        /\ UNCHANGED <<kbVars, ovVars, chVars, monVars, stVars, hkVars, tkVars>>

(***************************************************************************)
(* Specifications                                                          *)
(***************************************************************************)

InitKeys == KbInit /\ OvIdle /\ ChInit /\ MonIdle /\ FnIdle /\ StIdle /\ HkIdle /\ TkIdle

KbNext == KeyDown \/ KeyUp

\* The hotkey listener under arbitrary key events.
SpecKeys == InitKeys /\ [][KbNext]_vars

ScenarioNext == ScenarioDown \/ ScenarioUp

\* The hotkey listener under the toggle scenario.
SpecScenario == InitKeys /\ [][ScenarioNext]_vars

InitOverlay == KbIdle /\ OvInit /\ ChInit /\ MonIdle /\ FnIdle /\ StIdle /\ HkIdle /\ TkIdle

OvNext ==
    \/ ShowMenu
    \/ HideMenu
    \/ ToggleMenu
    \/ SetMenuCallbacks
    \/ ButtonClick
    \/ DisplaySuggestion
    \/ ClearSuggestion
    \/ SuggestionTimer
    \/ ShowErrors
    \/ ClearErrors

\* The overlay under arbitrary calls of its operations and timer expiries.
SpecOverlay == InitOverlay /\ [][OvNext]_vars

\* The overlay inside the Tk main loop: a timer set with after(3000, ...) does
\* expire. Nothing is assumed of the calls from outside.
InitOverlayTimers == KbIdle /\ OvInit /\ ChInit /\ MonIdle /\ FnIdle /\ StIdle /\ HkIdle /\ TkIdle

OvTimersNext ==
    \/ ShowMenu
    \/ HideMenu
    \/ ToggleMenu
    \/ DisplaySuggestion
    \/ ClearSuggestion
    \/ SuggestionTimer
    \/ ShowErrors
    \/ ClearErrors

SpecOverlayTimers ==
    InitOverlayTimers /\ [][OvTimersNext]_vars /\ WF_vars(SuggestionTimer)

InitChain == KbIdle /\ OvIdle /\ ChInit /\ MonIdle /\ FnIdle /\ StIdle /\ HkIdle /\ TkIdle

ChNext == ForceCaptureSmart

\* The capture chain under arbitrary answers of the foreign window.
SpecChain == InitChain /\ [][ChNext]_vars

InitClip == KbIdle /\ OvIdle /\ ChInit /\ ClipInit /\ FnIdle /\ StIdle /\ HkIdle /\ TkIdle

ClipNext ==
    \/ ForceCapture
    \/ ClipBackup
    \/ ClipClear
    \/ ClipSelectAll
    \/ ClipCopy
    \/ ClipRead
    \/ ClipRestore
    \/ ClipDeselect
    \/ ForceCaptureReturn
    \/ Advance

\* One thread calling TextMonitor.force_capture() again and again.
SpecClip == InitClip /\ [][ClipNext]_vars

InitMonitor == KbIdle /\ OvIdle /\ ChInit /\ MonInit /\ FnIdle /\ StIdle /\ HkIdle /\ TkIdle

MonNext ==
    \/ StartMonitoring
    \/ StopMonitoring
    \/ StopMonitoringReturn
    \/ ClipBackup
    \/ ClipClear
    \/ ClipSelectAll
    \/ ClipCopy
    \/ ClipRead
    \/ ClipRestore
    \/ ClipDeselect
    \/ LoopExit
    \/ LoopTick
    \/ CursorCallbackDone
    \/ LoopGate
    \/ SmartCaptureDone
    \/ ClipCaptureDone
    \/ TextCallbackDone
    \/ LoopWake
    \/ Advance

\* A monitor with its loop threads, a caller that starts and stops it, and the
\* clock.
SpecMonitor == InitMonitor /\ [][MonNext]_vars

InitRace == KbIdle /\ OvIdle /\ ChInit /\ RaceInit /\ FnIdle /\ StIdle /\ HkIdle /\ TkIdle

RaceNext ==
    \/ StartMonitoring
    \/ ForceCapture
    \/ ForceCaptureReturn
    \/ ClipBackup
    \/ ClipClear
    \/ ClipSelectAll
    \/ ClipCopy
    \/ ClipRead
    \/ ClipRestore
    \/ ClipDeselect
    \/ LoopTick
    \/ LoopGate
    \/ ClipCaptureDone
    \/ LoopWake
    \/ RaceAdvance

\* A TextMonitor whose loop runs while another thread calls force_capture().
SpecRace == InitRace /\ [][RaceNext]_vars

InitRestart == KbIdle /\ OvIdle /\ ChInit /\ MonInit /\ FnIdle /\ StIdle /\ HkIdle /\ TkIdle

RestartNext ==
    \/ RestartMonitoring
    \/ StopMonitoring
    \/ StopMonitoringReturn
    \/ ClipBackup
    \/ ClipClear
    \/ ClipSelectAll
    \/ ClipCopy
    \/ ClipRead
    \/ ClipRestore
    \/ ClipDeselect
    \/ LoopExit
    \/ LoopTick
    \/ CursorCallbackDone
    \/ LoopGate
    \/ SmartCaptureDone
    \/ ClipCaptureDone
    \/ TextCallbackDone
    \/ LoopWake
    \/ RestartAdvance

\* The monitor with start_monitoring() callable again after stop_monitoring().
SpecRestart == InitRestart /\ [][RestartNext]_vars

InitHook == KbInit /\ OvIdle /\ ChInit /\ MonIdle /\ StIdle /\ FnIdle /\ HkInit /\ TkIdle

HookNext ==
    \/ HookStart
    \/ HookStop
    \/ HookKeyDown
    \/ HookKeyUp
    \/ HotkeyFired
    \/ CallbackReturn

\* The hotkey listener under arbitrary calls of start() and stop(), key events
\* and returning or never-returning callbacks.
SpecHook == InitHook /\ [][HookNext]_vars

InitOverlaySteps == KbIdle /\ OvInit /\ ChInit /\ MonIdle /\ StIdle /\ FnIdle /\ HkIdle /\ TkIdle

OverlayStepsNext ==
    \/ BeginShowMenu
    \/ BeginHideMenu
    \/ BeginDisplaySuggestion
    \/ BeginClearSuggestion
    \/ BeginSuggestionTimer
    \/ StyleStep
    \/ AlphaStep
    \/ CircleMenuShowStep
    \/ CircleMenuHideStep
    \/ MenuFlagStep
    \/ DrawBoxStep
    \/ AfterStep
    \/ DeleteBoxesStep

\* The overlay with each operation taken one statement at a time.
SpecOverlaySteps == InitOverlaySteps /\ [][OverlayStepsNext]_vars

InitEditor == KbIdle /\ OvIdle /\ ChInit /\ MonIdle /\ FnIdle /\ StIdle /\ HkIdle /\ TkIdle

EditorNext == EditorTest

\* is_text_editor applied to arbitrary window infos.
SpecEditor == InitEditor /\ [][EditorNext]_vars

InitQuiet == KbIdle /\ OvIdle /\ ChInit /\ MonIdle /\ FnIdle /\ StIdle /\ HkIdle /\ TkIdle

QuietNext == QuietTest

\* The quiet test applied to arbitrary change times, periods and clock values.
SpecQuiet == InitQuiet /\ [][QuietNext]_vars


InitTick == KbIdle /\ OvIdle /\ ChInit /\ MonInit /\ FnIdle /\ StIdle /\ HkIdle /\ TkInit

TickNext ==
    \/ TickStartMonitoring
    \/ TickStopMonitoring
    \/ WindowHangs
    \/ TickWhile
    \/ TickWindow
    \/ TickPosition
    \/ TickCursorCallback
    \/ TickQuiet
    \/ TickWindowMessage
    \/ TickUIAutomation
    \/ TickClipboard
    \/ TickCompare
    \/ TickTextCallback
    \/ TickSleep

\* One loop thread taken statement by statement, a caller that starts and stops
\* the monitor, and a foreign window that may stop answering. The loop is a
\* thread of its own (threading.Thread, daemon): a statement it can execute is
\* executed in the end, and a message sent to a window is handled if the window
\* handles its messages again and again. Nothing is assumed of the caller or of
\* the window.
SpecTick ==
    InitTick /\ [][TickNext]_vars /\ WF_vars(TickThread) /\ SF_vars(TickWindowMessage)

InitChord == KbIdle /\ OvIdle /\ ChInit /\ MonIdle /\ FnIdle /\ StIdle /\ HkIdle /\ TkIdle

ChordNext == ChordTest

\* Chords parsed from arbitrary configurations and tested on arbitrary sets of
\* held keys.
SpecChord == InitChord /\ [][ChordNext]_vars

(***************************************************************************)
(* Claims about the hotkey listener                                        *)
(***************************************************************************)

ToggleChord == IF hook_class = "KeyboardHook" THEN hotkey_combo ELSE toggle_keys
ExitChord   == IF hook_class = "KeyboardHook" THEN exit_combo ELSE exit_keys

\* The pressed set right after the key of the key-down step is inserted.
AfterInsert == pressed_keys \cup {Normalize(last_event'.key)}

\* C1 as stated: with both callbacks registered, on every key-down each chord's
\* callback is dispatched exactly when the chord is a subset of the pressed set
\* after the insertion, and after any dispatch the pressed set is empty.
C1_EachChordFiresIffSubset ==
    [][ (callback /\ exit_callback /\ last_event'.type = "down") =>
          /\ ("toggle" \in dispatched') <=> (ToggleChord \subseteq AfterInsert)
          /\ ("exit" \in dispatched') <=> (ExitChord \subseteq AfterInsert)
          /\ (dispatched' # {} => pressed_keys' = {}) ]_kbVars

\* C1 amended: the toggle callback is dispatched exactly when the toggle chord
\* is a subset of the pressed set after the insertion; the exit callback exactly
\* when the exit chord is a subset and the toggle chord is not; a key-up
\* dispatches nothing; after any dispatch the pressed set is empty.
C1_ChordFiresIffSubsetToggleFirst ==
    [][ /\ (callback /\ exit_callback /\ last_event'.type = "down") =>
             /\ ("toggle" \in dispatched') <=> (ToggleChord \subseteq AfterInsert)
             /\ ("exit" \in dispatched') <=>
                    (ExitChord \subseteq AfterInsert
                       /\ ~(ToggleChord \subseteq AfterInsert))
             /\ (dispatched' # {} => pressed_keys' = {})
        /\ (last_event'.type = "up" => dispatched' = {}) ]_kbVars

\* C1 witness: the exit chord has just fired on a key-down with both callbacks
\* registered, and the pressed set was cleared.
C1_Witness ==
    /\ callback /\ exit_callback
    /\ last_event.type = "down"
    /\ dispatched = {"exit"}
    /\ pressed_keys = {}

\* Number of logged events that dispatched the toggle callback.
ToggleCount(log) == Cardinality({i \in 1..Len(log) : "toggle" \in log[i].dispatched})

\* C2: with the toggle callback registered, ctrl, shift, s pressed in that order
\* from a fresh listener dispatch the toggle callback exactly once (on the s),
\* and no later key-up or key-down of s alone dispatches it again.
C2_ToggleFiresOnce ==
    (callback /\ Len(events) >= Len(ScenarioPrefix)) =>
        /\ "toggle" \in events[3].dispatched
        /\ ToggleCount(events) = 1

\* C2 witness: after the chord fired, s was released and pressed again.
C2_Witness ==
    /\ callback
    /\ Len(events) >= 5
    /\ events[4].type = "up" /\ events[4].key = CharKey("s")
    /\ events[5].type = "down" /\ events[5].key = CharKey("s")

(***************************************************************************)
(* Claims about the overlay                                                *)
(***************************************************************************)

\* C3: whenever is_menu_visible is true, click-through is off.  TLC finds no
\* reachable state with is_menu_visible true (show_menu raises before setting
\* it), so the implication holds only vacuously.
C3_MenuVisibleImpliesClickable == is_menu_visible => ~click_through

\* is_menu_visible is false in every reachable overlay state.
MenuNeverVisible == ~is_menu_visible

\* C4 as stated: after show_menu click-through is off, and the hide_menu that
\* closes a menu leaves click-through and alpha at the values they had on entry
\* to the show_menu that opened it.
C4_HideMenuRestoresPreMenu ==
    [][ /\ (last_op'.op = "show_menu" => ~click_through')
        /\ (last_op'.op = "hide_menu" /\ pre_menu.open) =>
              /\ click_through' = pre_menu.click_through
              /\ alpha' = pre_menu.alpha ]_ovVars

(***************************************************************************)
(* Claims about the text monitors                                          *)
(***************************************************************************)

\* C5 as stated: when capture_text_via_clipboard has returned to the caller of
\* force_capture, the clipboard holds the content it held on entry, whichever
\* way the capture ended.
C5_ClipboardRestoredOnReturn ==
    clip[0].pc = "returned" => clipboard = clip[0].entry

\* A capture that has made its backup and not yet its restore.
InRoundTrip(t) == clip[t].pc \in {"clear", "select_all", "copy", "read", "restore"}

\* The step is a step of thread t's backup/clear/select/copy/read/restore
\* sequence.
RoundTripStepBy(t) ==
    /\ clip[t].pc \in {"backup", "clear", "select_all", "copy", "read", "restore"}
    /\ clip'[t] # clip[t]

\* C6 as stated: while a capture of a loop thread is between its backup and its
\* restore, the caller's force_capture takes no step of its own sequence.
C6_CapturesNeverInterleave ==
    [][ \A i \in 1..Len(loops) : InRoundTrip(i) => ~RoundTripStepBy(0) ]_vars

\* C10 as stated: once stop_monitoring of an ImprovedTextMonitor has returned,
\* no step makes a loop thread start a capture or invoke a callback.
C10_NoLoopEffectAfterStop ==
    (monitor_class = "ImprovedTextMonitor" /\ stop_returned) => loop_effect = "none"

(***************************************************************************)
(* Claims about the capture chain                                          *)
(***************************************************************************)

Captured == chain_trace # <<>>

WmText  == capture_text_via_window_message(chain_os).text
UiaText == capture_text_via_uiautomation(chain_os).text

\* C7: a capture invokes the window-message strategy first; if that yields
\* non-empty text it is the result and UI Automation is not invoked; otherwise
\* UI Automation is invoked once and its text is the result, so the result is
\* empty only if both strategies yield empty.
C7_FirstNonEmptyWins ==
    Captured =>
        /\ chain_trace[1].strategy = 1
        /\ chain_trace[1].text = WmText
        /\ IF WmText # <<>>
           THEN /\ Len(chain_trace) = 1
                /\ chain_result.text = WmText
           ELSE /\ Len(chain_trace) = 2
                /\ chain_trace[2].strategy = 2
                /\ chain_trace[2].text = UiaText
                /\ chain_result.text = UiaText
        /\ (chain_result.text = <<>>) <=> (WmText = <<>> /\ UiaText = <<>>)

\* C7 witness: the window message gave text while UI Automation would have
\* given another text, and only the first strategy was invoked.
C7_Witness ==
    /\ Captured
    /\ ~chain_os.wm_raises /\ chain_os.wm_text = Hello
    /\ ~chain_os.uia_raises /\ chain_os.value.ok /\ chain_os.value.text = <<"a">>
    /\ Len(chain_trace) = 1
    /\ chain_result.text = Hello

\* The scenario of C8: strategy 1 returned "" and strategy 2 returned "Hello".
C8_Scenario == Captured /\ WmText = <<>> /\ UiaText = Hello

C9_PlatformErrorIsEmptyResult ==
    Captured =>
        /\ ~chain_raised
        /\ \A i \in 1..Len(chain_trace) : ~chain_trace[i].raised
        /\ chain_os.wm_raises =>
              /\ chain_trace[1].text = <<>>
              /\ Len(chain_trace) = 2
              /\ chain_trace[2].strategy = 2
              /\ chain_result.text = chain_trace[2].text
        /\ (Len(chain_trace) = 2 /\ chain_os.uia_raises) =>
              chain_result.text = <<>>
        /\ (Len(chain_trace) = 2 /\ ~chain_os.uia_raises /\ ~chain_os.value.ok
              /\ chain_os.document.ok) =>
              chain_result.text = chain_os.document.text

\* C9 witness: the window message raised and the capture returned the text UI
\* Automation gave.
C9_Witness ==
    /\ Captured
    /\ chain_os.wm_raises /\ chain_os.wm_text = <<"a">>
    /\ ~chain_os.uia_raises /\ chain_os.value.ok /\ chain_os.value.text = Hello
    /\ chain_result.text = Hello
    /\ ~chain_raised

\* ---- the quiet period --------------------------------------------------------

\* Loop thread i is at its quiet test and this step takes the test.
GateStep(i) == loops[i].pc = "gate" /\ loops'[i].pc # "gate"

\* The step starts a capture attempt in loop thread i.
CaptureAttempt(i) == loops'[i].pc = "capturing"

\* The time since the recorded text change.
Elapsed == now - last_change_time

\* C11 as stated: after a recorded text change, a tick in a supported editor
\* attempts a capture exactly when the quiet period (debounce_time, 2000 ms)
\* has passed since the change: no attempt before it, an attempt on the first
\* tick after it.
C11_CaptureIffQuietPeriodOver ==
    [][\A i \in 1..Len(loops) :
          (GateStep(i) /\ last_change_time # 0) =>
              (CaptureAttempt(i) <=> Elapsed >= debounce_time)]_vars

\* The time a tick waits after a recorded change before it captures:
\* debounce_time in TextMonitor, typing_timeout in ImprovedTextMonitor.
QuietThreshold ==
    IF monitor_class = "TextMonitor" THEN debounce_time ELSE typing_timeout

\* C11 amended: after a recorded text change, a tick in a supported editor
\* attempts a capture exactly when 2000 ms have passed in TextMonitor and
\* exactly when 3000 ms have passed in ImprovedTextMonitor, whose typing
\* detection holds the capture back until then.
C11_CaptureIffThresholdOver ==
    [][\A i \in 1..Len(loops) :
          (GateStep(i) /\ last_change_time # 0) =>
              (CaptureAttempt(i) <=> Elapsed >= QuietThreshold)]_vars

\* C11 witness: a tick of TextMonitor has started a capture between 2000 ms
\* and 3000 ms after a recorded change.
C11_Witness ==
    /\ monitor_class = "TextMonitor"
    /\ last_change_time # 0
    /\ \E i \in 1..Len(loops) :
          /\ loops[i].pc = "capturing"
          /\ loops[i].current_time - last_change_time >= debounce_time
          /\ loops[i].current_time - last_change_time < typing_timeout

\* The latest application was the quiet test.
QuietTested == fn_args.fn = "quiet"

\* C12: for every time t0 of the recorded change and every positive quiet
\* period, the quiet test is false one unit before t0 + period and true one
\* unit after it; it is true exactly from t0 + period on.
C12_QuietTestThreshold ==
    QuietTested =>
        LET t0 == fn_args.last_change_time
            period == fn_args.debounce_time
            t == fn_args.current_time
        IN  /\ t = t0 + period - 1 => ~fn_result
            /\ t = t0 + period + 1 => fn_result
            /\ fn_result <=> t >= t0 + period

\* C12 witness: the test was taken one unit after the end of the quiet period
\* of a change recorded after time 0, and was true.
C12_Witness ==
    /\ QuietTested
    /\ fn_args.last_change_time > 0
    /\ fn_args.debounce_time > 1
    /\ fn_args.current_time = fn_args.last_change_time + fn_args.debounce_time + 1
    /\ fn_result

\* C13: in every overlay state, between the statements of the operations too,
\* click-through is on exactly when the opacity is at its resting value.
C13_ClickThroughIffResting == click_through <=> alpha = RestingAlpha

\* ---- the hotkey listener's life cycle ----------------------------------------

\* C14: the handler of a matched chord starts the callback on a thread of its
\* own and returns: the event-delivery thread is never held inside a callback,
\* so events go on being handled while callbacks that never return are running.
C14_HandlerNeverWaitsForCallback == ~handler_waiting

\* C14 witness: a chord has just been dispatched while the callback of an
\* earlier chord is still running.
C14_Witness ==
    /\ callback_threads = 2
    /\ dispatched # {}
    /\ last_event.type \in {"down", "hotkey"}

\* This step is a call of start(), of stop().
StartCall == hook_last'.n # hook_last.n /\ hook_last'.op = "start"
StopCall == hook_last'.n # hook_last.n /\ hook_last'.op = "stop"

\* What is_active() returns and the OS-level subscriptions held.
Subscriptions == <<is_running, os_listeners, hotkeys>>

\* C15: start() while active and stop() while inactive change neither
\* is_active() nor the OS-level subscriptions and raise nothing; a start()
\* after a start() that made the listener active, and a stop() after a stop(),
\* change nothing.
C15_RedundantCallsAreNoOps ==
    [][/\ (StartCall /\ is_running) =>
            (UNCHANGED Subscriptions /\ ~hook_last'.raised)
       /\ (StopCall /\ ~is_running) =>
            (UNCHANGED Subscriptions /\ ~hook_last'.raised)
       /\ (StartCall /\ hook_last.op = "start" /\ is_running) =>
            UNCHANGED Subscriptions
       /\ (StopCall /\ hook_last.op = "stop") =>
            UNCHANGED Subscriptions]_vars

\* C15 witness: start() has been called twice in a row and the listener is
\* active with the one subscription the first call made.
C15_Witness ==
    /\ hook_last.op = "start" /\ hook_last.prev = "start"
    /\ is_running
    /\ os_listeners + hotkeys.toggle = 1

NothingSubscribed == os_listeners = 0 /\ hotkeys.toggle = 0 /\ hotkeys.exit = 0

\* C16: once stop() has returned, and until the next call, no OS-level
\* keyboard subscription of the listener is left and is_active() is false,
\* whatever the start() calls before it did.
C16_StopReleasesEverything ==
    hook_last.op = "stop" => (NothingSubscribed /\ ~is_running)

\* C17: when neither the keyboard library nor pynput can be imported, start()
\* raises nothing and registers nothing and is_active() stays false, however
\* often start() is called.
C17_NoLibraryNoSubscription ==
    (hook_class = "ImprovedKeyboardHook" /\ hook_env.libs = {}) =>
        /\ NothingSubscribed
        /\ listener = "none"
        /\ ~is_running
        /\ ~hook_last.raised

\* C17 witness: start() has been called twice with no library available.
C17_Witness ==
    /\ hook_class = "ImprovedKeyboardHook" /\ hook_env.libs = {}
    /\ hook_last.op = "start" /\ hook_last.prev = "start"
    /\ hook_last.n >= 3
    /\ ~is_running

\* ---- the monitor's life cycle -------------------------------------------------

\* The monitor's fields other than the flag and the threads.
MonitorRecords == <<last_text, last_change_time, last_cursor_pos, clipboard,
                    text_change_callback, cursor_change_callback>>

\* C18: start_monitoring() while stopped sets the flag and creates one loop
\* thread; while running it creates no thread and changes nothing;
\* stop_monitoring(), called while running, while stopped or twice in a row,
\* leaves is_monitoring false when it returns and changes nothing else.
C18_StartStopCycle ==
    [][/\ (RestartMonitoring /\ is_monitoring) =>
            UNCHANGED <<is_monitoring, loops, MonitorRecords>>
       /\ (RestartMonitoring /\ ~is_monitoring) =>
            /\ is_monitoring'
            /\ Len(loops') = Len(loops) + 1
            /\ UNCHANGED MonitorRecords
       /\ StopMonitoring =>
            (~is_monitoring' /\ UNCHANGED <<loops, MonitorRecords>>)
       /\ StopMonitoringReturn =>
            (~is_monitoring' /\ UNCHANGED <<loops, MonitorRecords>>)]_vars

\* C18 witness: the monitor was started, stopped, started again and stopped
\* again; both loop threads have ended.
C18_Witness ==
    /\ stop_returned /\ ~is_monitoring
    /\ Len(loops) = 2
    /\ \A i \in 1..Len(loops) : loops[i].pc = "exited"

\* ---- editor detection --------------------------------------------------------

\* Two characters are the same letter when case is ignored.
SameLetter(a, b) == Lower(a) = Lower(b)

\* The keyword occurs in the text at some position, case ignored.
OccursIgnoringCase(keyword, text) ==
    \E i \in 1..Len(text) :
        /\ i + Len(keyword) - 1 <= Len(text)
        /\ \A j \in 1..Len(keyword) : SameLetter(text[i + j - 1], keyword[j])

\* The latest application was is_text_editor.
EditorTested == fn_args.fn = "is_text_editor"

\* C19: is_text_editor is true exactly when the title or the class name of the
\* window contains a keyword of the list, case ignored; it is false for every
\* other window info and for None.
C19_EditorIffKeywordOccurs ==
    EditorTested =>
        LET w == fn_args.window_info IN
        fn_result <=>
            /\ w # None
            /\ \E k \in 1..Len(editor_keywords) :
                  \/ OccursIgnoringCase(editor_keywords[k], w.title)
                  \/ OccursIgnoringCase(editor_keywords[k], w.class_name)

\* C19 witness: a window whose only keyword is in upper case in its class name
\* was found to be an editor.
C19_Witness ==
    /\ EditorTested
    /\ fn_args.window_info.title = <<"C", "h", "r", "o", "m", "e">>
    /\ fn_args.window_info.class_name = <<"S", "U", "B", "L", "I", "M", "E">>
    /\ fn_result

\* ---- ticks without a supported editor ----------------------------------------

\* This step is a tick of loop thread i that found no supported editor.
SkippedTick(i) == loops'[i].skipped /\ ~loops[i].skipped

\* C20: a tick whose foreground window is missing or is no supported editor
\* goes straight to its sleep: it records no pointer position, starts no
\* capture, calls no callback and leaves last_text, last_change_time,
\* last_cursor_pos and the clipboard as they were.
C20_SkippedTickChangesNothing ==
    [][\A i \in 1..Len(loops) :
          SkippedTick(i) =>
              /\ loops[i].pc = "while" /\ loops'[i].pc = "sleep"
              /\ loop_effect' = "none"
              /\ clip' = clip
              /\ UNCHANGED <<last_text, last_change_time, last_cursor_pos,
                             clipboard>>]_vars

\* C20 witness: after a capture has been recorded, a tick with both callbacks
\* registered found no supported editor and sleeps.
C20_Witness ==
    /\ text_change_callback /\ cursor_change_callback
    /\ last_text # <<>>
    /\ \E i \in 1..Len(loops) : loops[i].skipped /\ loops[i].pc = "sleep"

\* ---- the result of a tick's capture -------------------------------------------

\* This step is the return of thread i's capture with captured_text.
CaptureReturns(i, captured_text) ==
    \E d \in Durations :
        \/ SmartCaptureReturns(i, captured_text, d)
        \/ (ClipCaptureReturns(i, d) /\ clip[i].captured_text = captured_text)

\* The texts a capture can return.
CapturedTexts == SmartResults \cup ClipContents \cup Texts

\* The step records captured_text with the time of thread i's tick and hands
\* it to the text callback, if one is registered.
RecordsText(i, captured_text) ==
    /\ last_text' = captured_text
    /\ last_change_time' = loops[i].current_time
    /\ IF text_change_callback
       THEN loops'[i].pc = "text_cb" /\ loop_effect' = "text_cb"
       ELSE loops'[i].pc = "sleep" /\ loop_effect' = "none"

\* The step leaves the records as they were and calls no callback.
RecordsNothing(i) ==
    /\ UNCHANGED <<last_text, last_change_time>>
    /\ loops'[i].pc = "sleep"
    /\ loop_effect' = "none"

\* C21 as stated: a capture result that differs from last_text is recorded
\* with the tick's time and handed to the text callback; one that equals
\* last_text changes nothing and calls no callback.
C21_RecordedIffDifferent ==
    [][\A i \in 1..Len(loops), t \in CapturedTexts :
          CaptureReturns(i, t) =>
              IF t # last_text THEN RecordsText(i, t) ELSE RecordsNothing(i)]_vars

\* C21 amended: a capture result that is not empty and differs from last_text
\* is recorded with the tick's time and handed once to the text callback; an
\* empty result, or one that equals last_text, changes nothing and calls no
\* callback.
C21_RecordedIffNonEmptyAndDifferent ==
    [][\A i \in 1..Len(loops), t \in CapturedTexts :
          CaptureReturns(i, t) =>
              IF t # <<>> /\ t # last_text
              THEN RecordsText(i, t) ELSE RecordsNothing(i)]_vars

\* C21 witness: a tick has recorded a captured text with its time and its text
\* callback is running.
C21_Witness ==
    \E i \in 1..Len(loops) :
        /\ loops[i].pc = "text_cb"
        /\ last_text = Hello
        /\ last_change_time = loops[i].current_time
        /\ last_change_time > StartTime

(***************************************************************************)
(* Claims about the monitoring loop taken statement by statement           *)
(***************************************************************************)

\* The thread is inside a tick: past the while test and not yet at its sleep.
InTick == tick_pc \notin {"idle", "while", "sleep", "exited"}

\* C22: every tick eventually completes; in particular a tick that has sent
\* the window-message query reaches its sleep, whatever the foreign window
\* does.
C22_EveryTickCompletes == InTick ~> (tick_pc = "sleep")

\* The latest thing the tick did.
LastDone == IF tick_trace = <<>> THEN "none" ELSE tick_trace[Len(tick_trace)]

\* This step is an exception raised inside the tick.
RaiseStep == tick_trace' # tick_trace /\ LastDone' = "except"

\* C27: no failure inside a tick ends the loop. A step in which a callback
\* raises takes the thread to its sleep; the thread ends only at the while
\* test, with is_monitoring false; and from its sleep the thread always comes
\* back to the while test.
C27_FailuresAreContained ==
    /\ [][RaiseStep => tick_pc' = "sleep"]_vars
    /\ [][(tick_pc # "exited" /\ tick_pc' = "exited")
            => (tick_pc = "while" /\ ~is_monitoring)]_vars
    /\ ((tick_pc = "sleep") ~> (tick_pc = "while"))

\* C27 witness: a callback has raised, the tick is at its sleep and the
\* monitor is still monitoring.
C27_Witness ==
    /\ LastDone = "except"
    /\ tick_pc = "sleep"
    /\ is_monitoring

\* What the tick had done before the k-th entry of its trace.
Before(k) == {tick_trace[j] : j \in 1..(k - 1)}

\* C28: within a tick, the capture and the text callback come after the
\* pointer was read and, when the cursor callback was called, after it
\* returned.
C28_CursorBeforeCapture ==
    \A k \in 1..Len(tick_trace) :
        tick_trace[k] \in {"capture", "text_cb"} =>
            /\ "position" \in Before(k)
            /\ "cursor_cb" \in Before(k) => "cursor_cb_end" \in Before(k)

\* C28 witness: a tick whose cursor callback was called and returned has gone
\* on to capture and to call the text callback.
C28_Witness ==
    /\ tick_trace = <<"position", "cursor_cb", "cursor_cb_end", "capture",
                      "capture_end", "text_cb">>
    /\ tick_pc = "text_cb"

(***************************************************************************)
(* Claims about callouts on the overlay                                    *)
(***************************************************************************)

\* A suggestion box or error markers are on the canvas.
CalloutShown == suggestion_boxes > 0 \/ error_markers > 0

\* C23: whenever a suggestion box or error markers are displayed, the
\* overlay's opacity is above its resting value and clicks do not pass
\* through the window.
C23_CalloutImpliesRaised ==
    CalloutShown => (alpha > RestingAlpha /\ ~click_through)

\* The suggestion box is gone, the opacity is at its resting value and clicks
\* pass through the window.
Restored ==
    /\ suggestion_boxes = 0
    /\ alpha = RestingAlpha
    /\ click_through

\* display_suggestion was the latest operation.
SuggestionDisplayed == last_op.op = "display_suggestion"

Misconfigured ==
    /\ fn_args.fn = "chord"
    /\ \E i \in 1..Len(fn_args.keys) :
           /\ Lower(fn_args.keys[i]) \notin SpecialNames(fn_args.class)
           /\ Lower(fn_args.keys[i]) \in fn_args.unparsable

\* The chord the configuration stands for when every name is parsed.
IntendedChord == parse_hotkey_except(fn_args.class, fn_args.keys, {})

\* C25: a chord with an unparsable key name is harder to trigger: a set of
\* held keys that matches the parsed chord also matches the chord with the
\* name parsed, and a chord left with no key matches nothing.
C25_MisconfiguredChordIsHarder ==
    (Misconfigured /\ fn_result.matches) =>
        /\ ChordMatches(IntendedChord, fn_args.pressed)
        /\ fn_result.combo # {}

(***************************************************************************)
(* Claims about force_capture                                              *)
(***************************************************************************)

\* This step is one of the caller's force_capture().
ForceCaptureStep == clip'[0] # clip[0]

\* C26: force_capture can be called whatever the quiet test of the loop says,
\* and none of its steps changes last_text, last_change_time or
\* last_cursor_pos or calls a callback, so that get_last_text keeps returning
\* the text recorded by the loop.
C26_ForceCaptureChangesNoRecord ==
    /\ [][ForceCaptureStep =>
            /\ UNCHANGED <<last_text, last_change_time, last_cursor_pos>>
            /\ loop_effect' = "none"]_vars
    /\ []((caller.pc = "idle" /\ force_calls < MaxForceCalls) => ENABLED ForceCapture)

\* C26 witness: force_capture has returned a text while the loop's quiet test
\* fails, and last_text is still the other text the loop recorded.
C26_Witness ==
    /\ clip[0].pc = "returned"
    /\ clip[0].captured_text # <<>>
    /\ ~CaptureDue(now)
    /\ last_text # <<>>
    /\ last_text # clip[0].captured_text

(***************************************************************************)
(* Claims about the delivery of callbacks                                  *)
(***************************************************************************)

\* The loop threads that are inside the callback at pc.
InCallback(pc) == {i \in 1..Len(loops) : loops[i].pc = pc}

\* C29: callbacks never overlap: at any time at most one text callback and at
\* most one cursor callback is running, so the callback of an earlier tick has
\* returned before that of a later tick starts.
C29_CallbacksNeverOverlap ==
    /\ Cardinality(InCallback("text_cb")) <= 1
    /\ Cardinality(InCallback("cursor_cb")) <= 1

(***************************************************************************)
(* Claims about an empty capture                                           *)
(***************************************************************************)

\* C30: a tick whose capture returns the empty text leaves last_text and
\* last_change_time as they were, calls no text callback and raises nothing:
\* the thread goes to its sleep, and the outcome of the quiet test is what it
\* was before, so that the next eligible tick captures again.
C30_EmptyCaptureChangesNothing ==
    [][\A i \in 1..Len(loops) :
          CaptureReturns(i, <<>>) =>
              /\ RecordsNothing(i)
              /\ loops'[i].empty
              /\ CaptureDue(now)' = CaptureDue(now)]_vars

\* C30 witness: after a text was recorded, a tick has captured the empty text
\* and is at its sleep, with the record as it was.
C30_Witness ==
    \E i \in 1..Len(loops) :
        /\ loops[i].pc = "sleep"
        /\ loops[i].empty
        /\ last_text = Hello
        /\ last_change_time < loops[i].current_time

(***************************************************************************)
(* Claims about the cursor callback                                        *)
(***************************************************************************)

\* C31: on a tick with an editor in the foreground, the cursor callback is
\* called exactly when the position just read differs from last_cursor_pos
\* (and a callback is registered); afterwards last_cursor_pos is the position
\* just read, and an unchanged position calls nothing.
C31_CursorCallbackIffMoved ==
    [][\A p \in Positions :
          TickPositionReads(p) =>
              /\ last_cursor_pos' = p
              /\ (tick_pc' = "cursor_cb") =
                     (p # last_cursor_pos /\ cursor_change_callback)
              /\ tick_pc' \in {"cursor_cb", "quiet"}]_vars

\* C31 witness: the pointer was read at a new position, which is recorded, and
\* the cursor callback is running.
C31_Witness ==
    /\ tick_pc = "cursor_cb"
    /\ last_cursor_pos = <<1, 1>>
    /\ LastDone = "cursor_cb"

(***************************************************************************)
(* Claims about key normalisation                                          *)
(***************************************************************************)

\* Two keys are the same key when the case of a character is ignored.
SameKey(a, b) ==
    /\ a.kind = b.kind
    /\ IF a.kind = "char" THEN SameLetter(a.name, b.name) ELSE a.name = b.name

\* Every key of the chord is held, in either case.
ChordHeld(chord, held) == \A c \in chord : \E x \in held : SameKey(x, c)

\* C32: normalisation is the same on key-down and key-up and ignores the case
\* of characters. A key-down counts toward a chord in either case: the toggle
\* callback is started exactly when it is registered and every key of the
\* chord is held in some case, and otherwise the key is in the pressed set. A
\* key-up removes the key whatever the case it was pressed in, and nothing
\* else; a key-up of a key that is not pressed changes nothing.
C32_NormalizationIgnoresCase ==
    [][/\ last_event'.type = "up" =>
             pressed_keys' = {x \in pressed_keys : ~SameKey(x, last_event'.key)}
       /\ last_event'.type = "down" =>
             /\ ("toggle" \in dispatched') =
                    (callback /\ ChordHeld(hotkey_combo,
                                           pressed_keys \cup {last_event'.key}))
             /\ \/ pressed_keys' = {}
                \/ /\ pressed_keys \subseteq pressed_keys'
                   /\ \E x \in pressed_keys' : SameKey(x, last_event'.key)]_vars

\* C32 witness: a key-down of upper-case S has completed the toggle chord,
\* which names lower-case s.
C32_Witness ==
    /\ last_event = [type |-> "down", key |-> CharKey("S")]
    /\ "toggle" \in dispatched

(***************************************************************************)
(* Claims about the number of loop threads                                 *)
(***************************************************************************)

\* The loop threads that have not ended.
LiveLoops == {i \in 1..Len(loops) : loops[i].pc # "exited"}

\* C33: at any time at most one loop thread of a monitor is executing ticks.
C33_AtMostOneLoopThread == Cardinality(LiveLoops) <= 1

\* ---- the listener's subscriptions ----------------------------------------------

\* The listener holds an OS-level keyboard subscription: a running key
\* listener or a registered hotkey.
HoldsSubscription == os_listeners > 0 \/ hotkeys.toggle > 0 \/ hotkeys.exit > 0

\* No chord is subscribed more than once.
RegisteredOnce == os_listeners <= 1 /\ hotkeys.toggle <= 1 /\ hotkeys.exit <= 1

\* C34: is_active() is true exactly when the listener holds an OS-level
\* keyboard subscription, and no chord is ever registered more than once,
\* whatever start(), stop() and registration failures occurred.
C34_ActiveIffSubscribed ==
    /\ is_running = HoldsSubscription
    /\ RegisteredOnce

\* The keys of a chord of KeyboardHook.
ChordKeys(chord) == IF chord = "toggle" THEN hotkey_combo ELSE exit_combo

\* C35: a chord of KeyboardHook fires only if every key of the chord received
\* a key-down after the latest start() that started the listener; keys recorded
\* as pressed before a stop() do not count after the restart.
C35_ChordNeedsKeyDownsSinceStart ==
    [][(HookKeyDown /\ hook_class = "KeyboardHook") =>
          \A chord \in dispatched' : ChordKeys(chord) \subseteq down_since_start']_vars

\* C36: a key-down event starts at most one callback, also when the pressed
\* set holds both chords at that key-down, whichever callbacks are registered.
C36_OneCallbackPerKeyDown ==
    last_event.type = "down" => Cardinality(dispatched) <= 1

\* C36 witness: a key-down at which the pressed set held both chords, with both
\* callbacks registered, started one callback.
C36_Witness ==
    /\ last_event.type = "down"
    /\ satisfied = {"toggle", "exit"}
    /\ callback /\ exit_callback
    /\ Cardinality(dispatched) = 1

(***************************************************************************)
(* Claims about the circle menu and its callbacks                          *)
(***************************************************************************)

\* CircleMenu.is_visible of the overlay's menu, false when there is none.
MenuShown == circle_menu.exists /\ circle_menu.is_visible

\* C37: between overlay operations is_menu_visible equals the circle menu's
\* is_visible (false when no circle menu exists), after any sequence of
\* show_menu, hide_menu, toggle_menu, set_menu_callbacks and button clicks.
C37_MenuFlagMatchesMenu == is_menu_visible = MenuShown

\* C38: show_menu raises nothing and ends with the circle menu visible with
\* its three buttons and is_menu_visible true, and a toggle_menu that follows
\* hides the menu.
C38_ShowMenuCompletes ==
    /\ [](last_op.op = "show_menu" =>
            /\ ~last_op.raised
            /\ MenuShown /\ circle_menu.buttons = NumMenuItems
            /\ is_menu_visible)
    /\ [][(ToggleMenu /\ last_op.op = "show_menu") =>
            (~MenuShown' /\ ~is_menu_visible')]_vars

\* C39: the expiry of an earlier suggestion's timer, while a later suggestion
\* is displayed and its own timer is still pending, neither removes that
\* suggestion nor changes the opacity or the click-through it was shown with.
\* Timers of equal delay expire in the order they were set, so with two pending
\* the one that expires is not the latest suggestion's.
C39_EarlierTimerSparesLaterSuggestion ==
    [][(SuggestionTimer /\ timers >= 2 /\ suggestion_boxes > 0) =>
          /\ suggestion_boxes' > 0
          /\ alpha' = alpha
          /\ click_through' = click_through]_vars

\* The overlay's resting state: menu hidden, is_menu_visible false, resting
\* opacity, and click-through on where the style calls work.
Resting ==
    /\ ~MenuShown /\ ~is_menu_visible
    /\ alpha = RestingAlpha
    /\ win32 => click_through

\* C40: once set_menu_callbacks has been called, before or after the first
\* show_menu, a button click runs the callbacks it was given; and after any
\* button click the overlay is in its resting state.
C40_ClickRunsGivenCallbacks ==
    [][ButtonClick =>
          /\ (menu_handlers = "given" => menu_ran' = "given")
          /\ Resting']_vars

====
